---- MODULE Spec2Model ----
(***************************************************************************)
(* A model of the artemis opportunity pipeline:                            *)
(*   - the Aave flash-liquidation strategy and its executor                *)
(*     (crates/strategies/aave-flash-liquidation),                         *)
(*   - the block handler and arbitrage path search of the multi-strategy   *)
(*     crate (crates/strategies/multi-strategy),                           *)
(*   - the event handler, update_state and path search of the              *)
(*     multi-strategy-flash crate (crates/strategies/multi-strategy-flash),*)
(*   - the liquidation collector's event stream,                           *)
(*   - the main loop and the executors of the polygon JIT bot              *)
(*     (polygon-jit-strategy).                                             *)
(*                                                                         *)
(* Conventions.                                                            *)
(*   Option<T>   : None, Some(v)     (records [some |-> ...]).             *)
(*   f64 amounts : an f64 holding an ETH amount q is represented by the    *)
(*                 integer q * 10^18 (its value in wei), so                *)
(*                 format_units(x, 18).parse::<f64>() and `* 1e18 as u64`  *)
(*                 are changes of unit; f64 rounding is not modelled.      *)
(*                 In the two multi-strategy crates an f64 ETH amount is   *)
(*                 kept in fixed point (FX units to one ETH) and an f64    *)
(*                 price as an exact ratio.                                *)
(*   U256        : naturals; the inputs are kept below TLC's 32-bit range. *)
(***************************************************************************)
EXTENDS Integers, Sequences, FiniteSets, TLC

VARIABLES
    config,      \* liquidation strategy: Config (fixed after construction)
    state,       \* liquidation strategy: State
    chain,       \* the node and the client's transport to it: gas price, oracle
                 \* prices, reserve configuration, user accounts
    lastProc,    \* observation of the last process_event call and its result
    queue,       \* actions handed by the engine runtime to the executor
    exec,        \* liquidation executor: one execute() call in progress
    streak,      \* observation: number of consecutive failed execute() calls
    ms,          \* multi-strategy crate: config, state, metrics, the node's pools
    fl,          \* multi-strategy-flash crate: config, state, the node's pools
    col,         \* liquidation collector: the event stream and its last envelope
    probe,       \* one application of a function of the program to drawn inputs
    jit,         \* polygon JIT bot: arguments, opportunity channel, main loop
    mon,         \* polygon JIT bot: the mempool monitor task and what it sent
    met          \* polygon JIT bot: Metrics.recent_opportunities and its callers

liqVars == <<config, state, chain, lastProc, queue, exec, streak>>
vars == <<config, state, chain, lastProc, queue, exec, streak, ms, fl, col, probe, jit,
          mon, met>>

-----------------------------------------------------------------------------
(* Generic helpers *)

None == [some |-> FALSE]
Some(v) == [some |-> TRUE, val |-> v]

Min(a, b) == IF a <= b THEN a ELSE b

\* The element of a one-element set.  Only({F(x) : x \in {e}}) is F(e) with e
\* evaluated once and named x.
Only(S) == CHOOSE x \in S : TRUE
saturating_sub(a, b) == IF a > b THEN a - b ELSE 0

-----------------------------------------------------------------------------
(* Bounds of the model *)

\* Stand-in for 10^18 in the U256 divisions of the profit formulas
\* (10^18 itself is outside TLC's integer range).
WAD == 2
\* Largest gas price (wei) the node reports.
MaxGas == 1
\* The non-zero debt_to_cover carried by an incoming liquidation_opportunity.
BigDebt == 400000
\* The non-unit oracle price.
BigPrice == 400
\* Largest number of actions waiting for the executor.
MaxQueue == 1
\* Cap of the consecutive-failure observation.
MaxStreak == 2
\* The failure-streak threshold of the specification (the code has no such key).
FailureStreakThreshold == 2
\* Stand-in for a health factor of 1 (10^18 in the source).
HF_ONE == 10
\* Largest priority multiplier considered for the gas-price formula.
MaxPriorityMultiplier == 2

-----------------------------------------------------------------------------
(* Program constants *)

estimated_gas_units == 500000
CLOSE_FACTOR_BPS == 5000
BPS == 10000
DEFAULT_FEE_RATE == 9
STANDARD_GAS_LIMIT == 500000
FLASHBOTS_GAS_LIMIT == 600000
BONUS_SHIFT == 65536

-----------------------------------------------------------------------------
(* Liquidation strategy: data *)

Assets == {"WETH", "USDC"}
Users == {"u1"}
LiquidatorContract == "liquidator"

\* The reserve configuration bitmasks the pool returns: bits 16..31 hold the
\* liquidation bonus (10500 = 5 % bonus), bits 0..15 the LTV.
ReserveConfigs == {10500 * BONUS_SHIFT + 8000}

\* LiquidationTarget payloads an incoming liquidation_opportunity may carry.
Targets ==
    [user : Users, collateral_asset : {"WETH"}, debt_asset : {"USDC"},
     debt_to_cover : {0, BigDebt}, health_factor : {0}, liquidation_bonus : {10500},
     expected_profit : {0}, gas_cost_estimate : {0}, receive_a_token : {FALSE}]

NoTarget == [user |-> "none"]

\* Event bytes, by what serde_json makes of them.
\*   form "empty"     : zero bytes
\*   form "malformed" : bytes that are not JSON
\*   form "json"      : a JSON value; type "none" when it has no string `type`
EventTypes == {"block", "liquidation_opportunity", "liquidation_events",
               "health_check", "error", "mev_hint"}

Events ==
    {[form |-> "empty", type |-> "none", target |-> NoTarget],
     [form |-> "malformed", type |-> "none", target |-> NoTarget],
     [form |-> "json", type |-> "none", target |-> NoTarget]}
    \cup [form : {"json"}, type : EventTypes, target : {NoTarget}]
    \cup [form : {"json"}, type : {"liquidation_opportunity"}, target : Targets]

Configs ==
    [enabled_strategies : {<<"FlashLoanLiquidation", "DirectLiquidation",
                             "MEVProtectedLiquidation">>},
     liquidator_contract : {LiquidatorContract},
     min_profit_threshold : {0, 3 * estimated_gas_units},
     max_gas_price : {0, 1},
     gas_price_multiplier : {1},
     flashbots_enabled : BOOLEAN,
     mev_protection_enabled : {TRUE},
     circuit_breaker_enabled : {TRUE},
     monitored_assets : {<<"WETH", "USDC">>},
     supported_dexes : {<<"UniswapV2", "UniswapV3", "Curve">>, <<"Curve">>},
     dex_configs : {{"UniswapV2", "UniswapV3"}},
     preferred_provider : {"AaveV3"},
     health_factor_threshold : {HF_ONE},
     max_liquidation_amount : {BigDebt},
     providers : {{}},
     provider_fee_rate : {5}]

-----------------------------------------------------------------------------
(* Liquidation strategy: chain reads *)

\* get_liquidation_bonus: bits 16..31 of getConfiguration(asset).
get_liquidation_bonus(ch, rpc_ok, asset) ==
    IF rpc_ok THEN Some((ch.reserve_config \div BONUS_SHIFT) % BONUS_SHIFT) ELSE None

\* get_asset_price: the oracle's getAssetPrice(asset).
get_asset_price(ch, rpc_ok, asset) ==
    IF rpc_ok THEN Some(ch.price[asset]) ELSE None

\* get_users_with_asset_debt: the source returns None for every asset.
get_users_with_asset_debt(asset) == None

-----------------------------------------------------------------------------
(* Liquidation strategy: profit *)

\* estimate_gas_cost, in wei: gas_price / 10^9 gwei * 500000 units / 10^9 ETH,
\* times the configured multiplier.
estimate_gas_cost(st, cfg) ==
    st.gas_price * estimated_gas_units * cfg.gas_price_multiplier

get_flash_loan_fee_rate(cfg, provider) ==
    IF provider \in cfg.providers THEN cfg.provider_fee_rate ELSE DEFAULT_FEE_RATE

calculate_flash_loan_fee(cfg, amount) ==
    (amount * get_flash_loan_fee_rate(cfg, cfg.preferred_provider)) \div BPS

calculate_expected_profit(ch, rpc_ok, st, cfg, collateral_asset, debt_asset, debt_to_cover) ==
    LET bonus == get_liquidation_bonus(ch, rpc_ok, collateral_asset)
        cprice == get_asset_price(ch, rpc_ok, collateral_asset)
        dprice == get_asset_price(ch, rpc_ok, debt_asset)
    IN  IF ~bonus.some \/ ~cprice.some \/ ~dprice.some THEN None
        ELSE
        LET max_liquidation_amount ==
                Min(debt_to_cover, (debt_to_cover * CLOSE_FACTOR_BPS) \div BPS)
            collateral_amount ==
                (((max_liquidation_amount * dprice.val) \div cprice.val) * bonus.val) \div BPS
            profit_wei ==
                saturating_sub((collateral_amount * cprice.val) \div WAD,
                               (max_liquidation_amount * dprice.val) \div WAD)
            gas_cost == estimate_gas_cost(st, cfg)
        IN  IF profit_wei > gas_cost THEN Some(profit_wei - gas_cost) ELSE None

calculate_profit(ch, rpc_ok, st, cfg, target) ==
    Only({ IF ~expected.some THEN None
           ELSE
           LET profit_eth == expected.val
               gas_cost == estimate_gas_cost(st, cfg)
               flash_loan_fee == calculate_flash_loan_fee(cfg, target.debt_to_cover)
               net_profit == profit_eth - gas_cost - flash_loan_fee
           IN  IF net_profit > 0 THEN Some(net_profit) ELSE None
         : expected \in {calculate_expected_profit(ch, rpc_ok, st, cfg,
                            target.collateral_asset, target.debt_asset,
                            target.debt_to_cover)} })

-----------------------------------------------------------------------------
(* Liquidation strategy: swap routes and the liquidation path *)

find_uniswap_v2_route(cfg, token_in, token_out, amount_in) ==
    IF "UniswapV2" \notin cfg.dex_configs THEN None
    ELSE Some([dex_type |-> "UniswapV2", token_in |-> token_in, token_out |-> token_out,
               amount_in |-> amount_in, min_amount_out |-> (amount_in * 95) \div 100,
               fee |-> None])

find_uniswap_v3_route(cfg, token_in, token_out, amount_in) ==
    IF "UniswapV3" \notin cfg.dex_configs THEN None
    ELSE Some([dex_type |-> "UniswapV3", token_in |-> token_in, token_out |-> token_out,
               amount_in |-> amount_in, min_amount_out |-> (amount_in * 97) \div 100,
               fee |-> Some(3000)])

find_best_route_for_dex(cfg, token_in, token_out, amount_in, dex_type) ==
    CASE dex_type = "UniswapV2" -> find_uniswap_v2_route(cfg, token_in, token_out, amount_in)
      [] dex_type = "UniswapV3" -> find_uniswap_v3_route(cfg, token_in, token_out, amount_in)
      [] OTHER -> None

\* The routes found, in supported_dexes order.
RECURSIVE collect_routes(_, _, _, _, _)
collect_routes(cfg, dexes, token_in, token_out, amount_in) ==
    IF dexes = <<>> THEN <<>>
    ELSE LET r == find_best_route_for_dex(cfg, token_in, token_out, amount_in, Head(dexes))
         IN  (IF r.some THEN <<r.val>> ELSE <<>>)
             \o collect_routes(cfg, Tail(dexes), token_in, token_out, amount_in)

\* calculate_optimal_swap_routes: stable sort by min_amount_out, descending,
\* and keep the first route.
calculate_optimal_swap_routes(cfg, collateral_asset, debt_asset, liquidation_bonus) ==
    Only({ IF routes = <<>> THEN None
           ELSE LET best == CHOOSE i \in 1..Len(routes) :
                               /\ \A j \in 1..Len(routes) :
                                      routes[j].min_amount_out <= routes[i].min_amount_out
                               /\ \A j \in 1..(i - 1) :
                                      routes[j].min_amount_out < routes[i].min_amount_out
                IN  Some(<<routes[best]>>)
         : routes \in {collect_routes(cfg, cfg.supported_dexes, collateral_asset,
                                      debt_asset, liquidation_bonus)} })

create_liquidation_path(cfg, target, expected_profit) ==
    LET flash_loan == [asset |-> target.debt_asset,
                       amount |-> target.debt_to_cover,
                       provider |-> cfg.preferred_provider,
                       fee_rate |-> get_flash_loan_fee_rate(cfg, cfg.preferred_provider)]
    IN  Only({ IF ~swap_routes.some THEN None
               ELSE Some([target |-> target,
                          flash_loan |-> flash_loan,
                          swap_routes |-> swap_routes.val,
                          expected_profit_eth |-> expected_profit,
                          max_gas_price |-> cfg.max_gas_price,
                          use_flashbots |-> cfg.flashbots_enabled])
             : swap_routes \in {calculate_optimal_swap_routes(cfg,
                                    target.collateral_asset, target.debt_asset,
                                    target.liquidation_bonus)} })

ExecuteLiquidation(path, expected_profit) ==
    [kind |-> "ExecuteLiquidation", path |-> path, expected_profit |-> expected_profit]

-----------------------------------------------------------------------------
(* Liquidation strategy: scans and event routing *)

\* is_user_liquidatable / get_user_health_factor: getUserAccountData(user).
get_user_account_data(ch, rpc_ok, user) ==
    IF rpc_ok THEN Some(ch.account[user]) ELSE None

get_user_health_factor(ch, rpc_ok, user) ==
    LET d == get_user_account_data(ch, rpc_ok, user)
    IN  IF d.some THEN Some(d.val.health_factor) ELSE None

is_user_liquidatable(ch, rpc_ok, user) ==
    LET hf == get_user_health_factor(ch, rpc_ok, user)
    IN  IF hf.some THEN hf.val < HF_ONE ELSE FALSE

find_best_collateral_asset(cfg) ==
    IF cfg.monitored_assets = <<>> THEN None ELSE Some(cfg.monitored_assets[1])

\* calculate_max_liquidation_amount without the close factor.
calculate_max_liquidation_amount_uncapped(ch, rpc_ok, cfg, user) ==
    LET d == get_user_account_data(ch, rpc_ok, user)
    IN  IF ~d.some THEN None
        ELSE Some(Min(d.val.total_debt_eth, cfg.max_liquidation_amount))

calculate_max_liquidation_amount(ch, rpc_ok, cfg, user) ==
    LET d == get_user_account_data(ch, rpc_ok, user)
    IN  IF ~d.some THEN None
        ELSE Some(Min((d.val.total_debt_eth * CLOSE_FACTOR_BPS) \div BPS,
                      cfg.max_liquidation_amount))

calculate_liquidation_profit(ch, rpc_ok, collateral_asset, debt_asset, debt_to_cover, liquidation_bonus) ==
    LET cprice == get_asset_price(ch, rpc_ok, collateral_asset)
        dprice == get_asset_price(ch, rpc_ok, debt_asset)
    IN  IF ~cprice.some \/ ~dprice.some THEN None
        ELSE
        LET collateral_amount ==
                (((debt_to_cover * dprice.val) \div cprice.val) * liquidation_bonus) \div BPS
        IN  Some(saturating_sub((collateral_amount * cprice.val) \div WAD,
                                (debt_to_cover * dprice.val) \div WAD))

\* create_liquidation_target.  The four getUserAccountData calls of one
\* invocation are separate eth_calls: reads[k] is the chain as the k-th of
\* them sees it (is_user_liquidatable, get_user_health_factor,
\* get_user_account_data, calculate_max_liquidation_amount); the bonus and
\* the prices are read after them.
create_liquidation_target(reads, rpc_ok, st, cfg, user, debt_asset) ==
    IF ~is_user_liquidatable(reads[1], rpc_ok, user) THEN None
    ELSE
    LET health_factor == get_user_health_factor(reads[2], rpc_ok, user)
        collateral == find_best_collateral_asset(cfg)
    IN  IF ~health_factor.some THEN None
        ELSE IF health_factor.val >= cfg.health_factor_threshold THEN None
        ELSE IF ~get_user_account_data(reads[3], rpc_ok, user).some THEN None
        ELSE IF ~collateral.some THEN None
        ELSE
        LET liquidation_bonus == get_liquidation_bonus(reads[4], rpc_ok, collateral.val)
            max_debt_to_cover == calculate_max_liquidation_amount(reads[4], rpc_ok, cfg, user)
        IN  IF ~liquidation_bonus.some \/ ~max_debt_to_cover.some THEN None
            ELSE
            LET debt_to_cover == Min(max_debt_to_cover.val, cfg.max_liquidation_amount)
                expected_profit ==
                    calculate_liquidation_profit(reads[4], rpc_ok, collateral.val,
                                                 debt_asset, debt_to_cover,
                                                 liquidation_bonus.val)
            IN  IF ~expected_profit.some THEN None
                ELSE Some([user |-> user,
                           collateral_asset |-> collateral.val,
                           debt_asset |-> debt_asset,
                           debt_to_cover |-> debt_to_cover,
                           health_factor |-> health_factor.val,
                           liquidation_bonus |-> liquidation_bonus.val,
                           expected_profit |-> expected_profit.val,
                           gas_cost_estimate |-> estimate_gas_cost(st, cfg),
                           receive_a_token |-> FALSE])

RECURSIVE targets_of_users(_, _, _, _, _, _)
targets_of_users(ch, rpc_ok, st, cfg, users, debt_asset) ==
    IF users = <<>> THEN <<>>
    ELSE LET t == create_liquidation_target(<<ch, ch, ch, ch>>, rpc_ok, st, cfg,
                                            Head(users), debt_asset)
         IN  (IF t.some THEN <<t.val>> ELSE <<>>)
             \o targets_of_users(ch, rpc_ok, st, cfg, Tail(users), debt_asset)

\* find_liquidation_opportunities: the targets of the users of every monitored
\* asset.  get_users_with_asset_debt yields no user list, so no target is built.
RECURSIVE find_liquidation_opportunities_from(_, _, _, _, _)
find_liquidation_opportunities_from(ch, rpc_ok, st, cfg, assets) ==
    IF assets = <<>> THEN <<>>
    ELSE LET users == get_users_with_asset_debt(Head(assets))
         IN  (IF users.some
              THEN targets_of_users(ch, rpc_ok, st, cfg, users.val, Head(assets))
              ELSE <<>>)
             \o find_liquidation_opportunities_from(ch, rpc_ok, st, cfg, Tail(assets))

find_liquidation_opportunities(ch, rpc_ok, st, cfg) ==
    find_liquidation_opportunities_from(ch, rpc_ok, st, cfg, cfg.monitored_assets)

\* One turn of the loop of find_flash_loan_liquidation_opportunities:
\* acc = [path, highest_profit] so far.
consider_target(ch, rpc_ok, st, cfg, target, acc) ==
    Only({ IF profit.some /\ profit.val > acc.highest_profit
              /\ profit.val > cfg.min_profit_threshold
           THEN Only({ IF path.some
                       THEN [path |-> path, highest_profit |-> profit.val]
                       ELSE acc
                     : path \in {create_liquidation_path(cfg, target, profit.val)} })
           ELSE acc
         : profit \in {calculate_profit(ch, rpc_ok, st, cfg, target)} })

RECURSIVE most_profitable(_, _, _, _, _, _)
most_profitable(ch, rpc_ok, st, cfg, targets, acc) ==
    IF targets = <<>> THEN acc
    ELSE most_profitable(ch, rpc_ok, st, cfg, Tail(targets),
                         consider_target(ch, rpc_ok, st, cfg, Head(targets), acc))

find_flash_loan_liquidation_opportunities(ch, rpc_ok, st, cfg) ==
    Only({ IF liquidation_targets = <<>> THEN None
           ELSE Only({ IF best.path.some
                       THEN Some(ExecuteLiquidation(best.path.val, best.highest_profit))
                       ELSE None
                     : best \in {most_profitable(ch, rpc_ok, st, cfg, liquidation_targets,
                                                 [path |-> None, highest_profit |-> 0])} })
         : liquidation_targets \in {find_liquidation_opportunities(ch, rpc_ok, st, cfg)} })

find_direct_liquidation_opportunities == None

\* The protected action for one target, if it is profitable and routable.
protected_action(ch, rpc_ok, st, cfg, target) ==
    Only({ IF profit.some /\ profit.val > cfg.min_profit_threshold
           THEN Only({ IF path.some
                       THEN Some(ExecuteLiquidation([path.val EXCEPT !.use_flashbots = TRUE],
                                                    profit.val))
                       ELSE None
                     : path \in {create_liquidation_path(cfg, target, profit.val)} })
           ELSE None
         : profit \in {calculate_profit(ch, rpc_ok, st, cfg, target)} })

\* The loop of find_mev_protected_liquidation_opportunities: the first target
\* (in order) that yields an action.
RECURSIVE first_protected(_, _, _, _, _)
first_protected(ch, rpc_ok, st, cfg, targets) ==
    IF targets = <<>> THEN None
    ELSE Only({ IF found.some THEN found
                ELSE first_protected(ch, rpc_ok, st, cfg, Tail(targets))
              : found \in {protected_action(ch, rpc_ok, st, cfg, Head(targets))} })

find_mev_protected_liquidation_opportunities(ch, rpc_ok, st, cfg) ==
    IF ~cfg.mev_protection_enabled THEN None
    ELSE Only({ first_protected(ch, rpc_ok, st, cfg, liquidation_targets)
              : liquidation_targets \in
                    {find_liquidation_opportunities(ch, rpc_ok, st, cfg)} })

RECURSIVE scan_strategies(_, _, _, _, _)
scan_strategies(ch, rpc_ok, st, cfg, kinds) ==
    IF kinds = <<>> THEN <<>>
    ELSE Only({ IF found.some THEN <<found.val>> ELSE <<>>
              : found \in
                  {CASE Head(kinds) = "FlashLoanLiquidation" ->
                            find_flash_loan_liquidation_opportunities(ch, rpc_ok, st, cfg)
                     [] Head(kinds) = "DirectLiquidation" ->
                            find_direct_liquidation_opportunities
                     [] Head(kinds) = "MEVProtectedLiquidation" ->
                            find_mev_protected_liquidation_opportunities(ch, rpc_ok, st, cfg)} })
         \o scan_strategies(ch, rpc_ok, st, cfg, Tail(kinds))

process_block_event(ch, rpc_ok, st, cfg) ==
    IF st.circuit_breaker_triggered THEN <<>>
    ELSE scan_strategies(ch, rpc_ok, st, cfg, cfg.enabled_strategies)

\* The liquidation_opportunity arm of process_event.
process_liquidation_opportunity(ch, rpc_ok, st, cfg, ev) ==
    IF ev.target = NoTarget THEN <<>>          \* from_value::<LiquidationTarget> fails
    ELSE Only({ IF profit.some /\ profit.val > cfg.min_profit_threshold
                THEN Only({ IF path.some
                            THEN <<ExecuteLiquidation(path.val, profit.val)>>
                            ELSE <<>>
                          : path \in {create_liquidation_path(cfg, ev.target, profit.val)} })
                ELSE <<>>
              : profit \in {calculate_profit(ch, rpc_ok, st, cfg, ev.target)} })

\* The routing with undecodable bytes dropped.
event_route_strict(ev) ==
    CASE ev.form = "json" /\ ev.type = "block" -> "block_scan"
      [] ev.form = "json" /\ ev.type = "liquidation_opportunity" ->
              "liquidation_opportunity"
      [] OTHER -> "none"

\* The branch process_event takes for the bytes it is given.
event_route(ev) ==
    CASE \/ ev.form = "empty"                       \* data.is_empty()
         \/ ev.form = "malformed"                   \* from_slice is Err
         \/ ev.form = "json" /\ ev.type = "block" -> "block_scan"
      [] ev.form = "json" /\ ev.type = "liquidation_opportunity" ->
              "liquidation_opportunity"
      [] OTHER -> "none"

process_event(ch, rpc_ok, st, cfg, ev) ==
    CASE event_route(ev) = "block_scan" ->
              process_block_event(ch, rpc_ok, st, cfg)
      [] event_route(ev) = "liquidation_opportunity" ->
              process_liquidation_opportunity(ch, rpc_ok, st, cfg, ev)
      [] OTHER -> <<>>

\* get_event_stream's error envelope as bytes: to_vec(..).unwrap_or_default()
\* is the JSON text when serialization succeeds and no bytes when it fails.
error_envelope_bytes(serialized) ==
    IF serialized
    THEN [form |-> "json", type |-> "error", target |-> NoTarget]
    ELSE [form |-> "empty", type |-> "none", target |-> NoTarget]

-----------------------------------------------------------------------------
(* Liquidation executor *)

NoPath == [use_flashbots |-> FALSE, max_gas_price |-> 0, none |-> TRUE]
NoTx == [to |-> "none"]

ExecIdle ==
    [pc |-> "idle", path |-> NoPath, gas_price |-> 0, tx |-> NoTx,
     channel |-> "none", receipt |-> "none", outcome |-> "none", result |-> "none"]

encode_flash_liquidation_call(path) ==
    [fn |-> "flashLiquidate",
     collateralAsset |-> path.target.collateral_asset,
     debtAsset |-> path.target.debt_asset,
     user |-> path.target.user,
     debtToCover |-> path.target.debt_to_cover,
     receiveAToken |-> path.target.receive_a_token]

encode_protected_liquidation_call(path) ==
    [fn |-> "submitProtectedLiquidation",
     collateralAsset |-> path.target.collateral_asset,
     debtAsset |-> path.target.debt_asset,
     user |-> path.target.user,
     debtToCover |-> path.target.debt_to_cover,
     receiveAToken |-> path.target.receive_a_token]

build_standard_transaction(liquidator_contract, path) ==
    [to |-> liquidator_contract,
     data |-> encode_flash_liquidation_call(path),
     gas_price |-> path.max_gas_price,
     gas |-> STANDARD_GAS_LIMIT]

build_flashbots_transaction(liquidator_contract, path) ==
    [to |-> liquidator_contract,
     data |-> encode_protected_liquidation_call(path),
     gas_price |-> path.max_gas_price,
     gas |-> FLASHBOTS_GAS_LIMIT]

\* A gate that also refuses a gas price equal to the ceiling (not the program's).
gas_price_too_high_at_ceiling(gas_price, path) == gas_price >= path.max_gas_price

\* The price gate of execute_flash_liquidation.
gas_price_too_high(gas_price, path) == gas_price > path.max_gas_price

\* Both kinds of request go out through client.send_transaction: where they go
\* is the transport of the one client the executor was constructed with.
send_transaction(ch, tx_request) == ch.transport

\* What execute_flash_liquidation returns once the pending transaction resolves.
receipt_result(receipt) ==
    CASE receipt = "success" -> "Ok"       \* Ok(Some(receipt))
      [] receipt = "reverted" -> "Ok"      \* Ok(Some(receipt)), status not read
      [] receipt = "dropped" -> "Err"      \* Ok(None)
      [] receipt = "rpc_error" -> "Err"    \* Err(e)

receipt_outcome(receipt) ==
    CASE receipt = "success" -> "mined_success"
      [] receipt = "reverted" -> "mined_reverted"
      [] receipt = "dropped" -> "dropped"
      [] receipt = "rpc_error" -> "wait_error"

\* The consecutive-failure observation after an execute() call ends.
streak_after(n, outcome) ==
    CASE outcome = "mined_success" -> 0
      [] outcome \in {"gas_too_high", "none", "no_op"} -> n
      [] OTHER -> Min(n + 1, MaxStreak)

-----------------------------------------------------------------------------
(* multi-strategy crate: data *)

\* Stand-in for 10^18, the wei of one token (18 decimals).
ETH_UNIT == 200
\* f64 ETH amounts are kept in fixed point: FX units to one ETH.
FX == 2000
\* Cap of the opportunity counters of Metrics.
MaxMetric == 4
\* Latest reading of the system clock, in seconds.
MaxClock == 3
\* config.submission_timeout, in seconds.
MsSubmissionTimeout == 1

MAX_PATH_LENGTH == 3
GAS_COST_PER_SWAP == 150000
GAS_COST_BASE == 250000
GAS_PRICE_GWEI == 30
MIN_PROFIT_ETH == (5 * FX) \div 1000

weth_address == "WETH"
MsTokens == {"WETH", "DAI"}

\* config.monitored_pools: a Uniswap V2 pair, a SushiSwap pair, a Curve pool.
MsPoolConfigs ==
    << [address |-> "pA", pool_type |-> "UniswapV2", tokens |-> <<"WETH", "DAI">>],
       [address |-> "pB", pool_type |-> "SushiSwap", tokens |-> <<"DAI", "WETH">>],
       [address |-> "pC", pool_type |-> "Curve", tokens |-> <<"WETH", "DAI">>] >>

MsPoolAddrs == <<"pA", "pB", "pC">>

\* getReserves() answers of the node, per pool: <<reserve0, reserve1>>.
MsReserveSnapshots ==
    [pA : {<<1000, 2000>>, <<2000, 2000>>, <<500, 0>>},
     pB : {<<2000, 2000>>, <<2000, 1000>>},
     pC : {<<1000, 1000>>}]

MsQuiet == [pA |-> <<2000, 2000>>, pB |-> <<2000, 2000>>, pC |-> <<1000, 1000>>]

\* An f64 price is kept as the exact ratio num / den.
Ratio(num, den) == [num |-> num, den |-> den]

\* The strategy after MultiStrategy::new, with the iteration order of its
\* pool_reserves map and the node it talks to.
\* A strategy whose counters were carried over from an earlier run instead of
\* being reset: what MultiStrategy::new must not produce.
MsConstructedStale(cfg, order, node) ==
    [config |-> cfg,
     hash_order |-> order,
     node |-> node,
     state |-> [token_prices |-> [t \in MsTokens |-> None],
                pool_reserves |-> [a \in {"pA", "pB", "pC"} |-> None],
                tracked_txs |-> {}],
     metrics |-> [total_profit |-> 0, successful_txs |-> 0, failed_txs |-> 1,
                  arbitrage_opportunities |-> 0, jit_opportunities |-> 0,
                  backrunning_opportunities |-> 0, avg_gas_price |-> 0],
     called |-> FALSE,
     event |-> "none",
     returned |-> <<>>]

\* MultiStrategy::new: State::default() (three empty maps) and the derived
\* Metrics::default() (every field zero).
MsConstructed(cfg, order, node) ==
    [config |-> cfg,
     hash_order |-> order,
     node |-> node,
     state |-> [token_prices |-> [t \in MsTokens |-> None],
                pool_reserves |-> [a \in {"pA", "pB", "pC"} |-> None],
                tracked_txs |-> {}],
     metrics |-> [total_profit |-> 0, successful_txs |-> 0, failed_txs |-> 0,
                  arbitrage_opportunities |-> 0, jit_opportunities |-> 0,
                  backrunning_opportunities |-> 0, avg_gas_price |-> 0],
     called |-> FALSE,
     event |-> "none",
     returned |-> <<>>]

\* The multi-strategy instance of the runs that do not exercise it.
MsIdle ==
    MsConstructed([min_profit_threshold |-> MIN_PROFIT_ETH,
                   enable_arbitrage |-> TRUE,
                   monitored_tokens |-> <<"WETH", "DAI">>,
                   monitored_pools |-> MsPoolConfigs,
                   submission_timeout |-> MsSubmissionTimeout],
                  MsPoolAddrs, MsQuiet)

-----------------------------------------------------------------------------
(* multi-strategy crate: swap quotes and path profit *)

\* format_units(x, 18) parsed as f64.
format_units_18(x) == (x * FX) \div ETH_UNIT

\* calculate_v2_swap_output reading the reserves of the opposite direction.
calculate_v2_swap_output_flipped(pool_reserve, token_in, amount_in, zero_for_one) ==
    LET reserve_in == IF zero_for_one THEN pool_reserve.reserve1 ELSE pool_reserve.reserve0
        reserve_out == IF zero_for_one THEN pool_reserve.reserve0 ELSE pool_reserve.reserve1
        token_out == IF zero_for_one THEN pool_reserve.token1 ELSE pool_reserve.token0
        amount_in_with_fee == amount_in * 997
        numerator == amount_in_with_fee * reserve_out
        denominator == reserve_in * 1000 + amount_in_with_fee
    IN  IF denominator = 0 THEN <<0, token_out>>
        ELSE <<numerator \div denominator, token_out>>

calculate_v2_swap_output(pool_reserve, token_in, amount_in, zero_for_one) ==
    LET reserve_in == IF zero_for_one THEN pool_reserve.reserve0 ELSE pool_reserve.reserve1
        reserve_out == IF zero_for_one THEN pool_reserve.reserve1 ELSE pool_reserve.reserve0
        token_out == IF zero_for_one THEN pool_reserve.token1 ELSE pool_reserve.token0
        amount_in_with_fee == amount_in * 997
        numerator == amount_in_with_fee * reserve_out
        denominator == reserve_in * 1000 + amount_in_with_fee
    IN  IF denominator = 0 THEN <<0, token_out>>
        ELSE <<numerator \div denominator, token_out>>

calculate_v3_swap_output(pool_reserve, token_in, amount_in, zero_for_one) ==
    LET reserve_in == IF zero_for_one THEN pool_reserve.reserve0 ELSE pool_reserve.reserve1
        reserve_out == IF zero_for_one THEN pool_reserve.reserve1 ELSE pool_reserve.reserve0
        token_out == IF zero_for_one THEN pool_reserve.token1 ELSE pool_reserve.token0
        amount_in_with_fee == amount_in * 997
        numerator == amount_in_with_fee * reserve_out
        denominator == reserve_in * 1000 + amount_in_with_fee
    IN  IF denominator = 0 THEN <<0, token_out>>
        ELSE <<((numerator \div denominator) * 101) \div 100, token_out>>

calculate_swap_output(pool_reserve, token_in, amount_in, zero_for_one) ==
    CASE pool_reserve.pool_type \in {"UniswapV2", "SushiSwap"} ->
             calculate_v2_swap_output(pool_reserve, token_in, amount_in, zero_for_one)
      [] pool_reserve.pool_type = "UniswapV3" ->
             calculate_v3_swap_output(pool_reserve, token_in, amount_in, zero_for_one)
      [] pool_reserve.pool_type = "Curve" -> <<0, token_in>>

\* The loop of estimate_path_profit over the swaps: [amount_in, current_token],
\* or failed when a pool has no reserves cached or a swap yields zero.
RECURSIVE simulate_swaps(_, _, _, _)
simulate_swaps(st, swaps, amount_in, current_token) ==
    IF swaps = <<>> THEN [failed |-> FALSE, amount_in |-> amount_in,
                          current_token |-> current_token]
    ELSE IF ~st.pool_reserves[Head(swaps).pool].some
         THEN [failed |-> TRUE, amount_in |-> 0, current_token |-> current_token]
    ELSE Only({ IF out[1] = 0
                THEN [failed |-> TRUE, amount_in |-> 0, current_token |-> out[2]]
                ELSE simulate_swaps(st, Tail(swaps), out[1], out[2])
              : out \in {calculate_swap_output(st.pool_reserves[Head(swaps).pool].val,
                                               current_token, amount_in,
                                               Head(swaps).zero_for_one)} })

\* (GAS_COST_BASE + n * GAS_COST_PER_SWAP) * GAS_PRICE_GWEI * 1e-9, in ETH.
path_gas_cost_eth(n) ==
    ((((GAS_COST_BASE + n * GAS_COST_PER_SWAP) \div 1000) * GAS_PRICE_GWEI) * FX)
        \div 1000000

estimate_path_profit(st, path) ==
    Only({ IF end.failed THEN 0
           ELSE IF end.current_token # path.start_token THEN 0
           ELSE LET profit_tokens == saturating_sub(end.amount_in, path.borrow_amount)
                    price == st.token_prices[path.start_token]
                    profit_eth ==
                        IF path.start_token = weth_address
                        THEN format_units_18(profit_tokens)
                        ELSE IF price.some
                        THEN (format_units_18(profit_tokens) * price.val.num)
                                 \div price.val.den
                        ELSE 0
                IN  profit_eth - path_gas_cost_eth(Len(path.swaps))
         : end \in {simulate_swaps(st, path.swaps, path.borrow_amount,
                                   path.start_token)} })

calculate_path_profit(st, path) == estimate_path_profit(st, path)

-----------------------------------------------------------------------------
(* multi-strategy crate: path search *)

determine_optimal_borrow_amount(st, start_token, swaps) ==
    IF start_token = weth_address THEN ETH_UNIT
    ELSE IF st.token_prices[start_token].some
    THEN \* (0.5 / price) * 10^18 as u128
         IF st.token_prices[start_token].val.num = 0 THEN 0
         ELSE (ETH_UNIT * st.token_prices[start_token].val.den)
                  \div (2 * st.token_prices[start_token].val.num)
    ELSE ETH_UNIT

build_arbitrage_path(st, start_token, path) ==
    IF \E i \in 1..Len(path) : ~st.pool_reserves[path[i].pool].some THEN None
    ELSE LET swaps == [i \in 1..Len(path) |->
                          [pool |-> path[i].pool,
                           pool_type |-> path[i].pool_type,
                           zero_for_one |-> path[i].is_token0,
                           amount_in |-> 0,
                           expected_out |-> 0]]
         IN  Some([start_token |-> start_token,
                   borrow_amount |-> determine_optimal_borrow_amount(st, start_token, swaps),
                   swaps |-> swaps])

\* graph[token]: the (pool, other token, pool type) edges of the cached pools,
\* in the iteration order of the pool_reserves map.
RECURSIVE graph_edges(_, _, _)
graph_edges(st, order, token) ==
    IF order = <<>> THEN <<>>
    ELSE LET pool == Head(order)
             r == st.pool_reserves[pool]
         IN  (IF r.some /\ r.val.token0 = token
              THEN <<[pool |-> pool, next_token |-> r.val.token1,
                      pool_type |-> r.val.pool_type]>>
              ELSE <<>>)
             \o (IF r.some /\ r.val.token1 = token
                 THEN <<[pool |-> pool, next_token |-> r.val.token0,
                         pool_type |-> r.val.pool_type]>>
                 ELSE <<>>)
             \o graph_edges(st, Tail(order), token)

\* The queue entries pushed for one dequeued entry.
RECURSIVE explore_neighbors(_, _, _)
explore_neighbors(st, item, neighbors) ==
    IF neighbors = <<>> THEN <<>>
    ELSE LET n == Head(neighbors)
         IN  (IF n.pool \in item.visited_pools THEN <<>>
              ELSE <<[current_token |-> n.next_token,
                      path |-> Append(item.path,
                                  [pool |-> n.pool,
                                   from_token |-> item.current_token,
                                   to_token |-> n.next_token,
                                   is_token0 |-> st.pool_reserves[n.pool].some
                                       /\ st.pool_reserves[n.pool].val.token0
                                              = item.current_token,
                                   pool_type |-> n.pool_type]),
                      visited_pools |-> item.visited_pools \cup {n.pool}]>>)
             \o explore_neighbors(st, item, Tail(neighbors))

\* A cycle dequeued by the search: kept when it can be built and its estimate
\* reaches MIN_PROFIT_ETH.
cycle_found(st, start_token, path) ==
    Only({ IF arb_path.some /\ estimate_path_profit(st, arb_path.val) >= MIN_PROFIT_ETH
           THEN <<arb_path.val>>
           ELSE <<>>
         : arb_path \in {build_arbitrage_path(st, start_token, path)} })

\* The breadth-first loop of find_profitable_paths.
RECURSIVE bfs_cycles(_, _, _, _, _)
bfs_cycles(st, order, start_token, bfs_queue, profitable_paths) ==
    IF bfs_queue = <<>> THEN profitable_paths
    ELSE IF Head(bfs_queue).current_token = start_token /\ Head(bfs_queue).path # <<>>
    THEN bfs_cycles(st, order, start_token, Tail(bfs_queue),
                    profitable_paths \o cycle_found(st, start_token, Head(bfs_queue).path))
    ELSE IF Len(Head(bfs_queue).path) >= MAX_PATH_LENGTH
    THEN bfs_cycles(st, order, start_token, Tail(bfs_queue), profitable_paths)
    ELSE bfs_cycles(st, order, start_token,
                    Tail(bfs_queue)
                        \o explore_neighbors(st, Head(bfs_queue),
                               graph_edges(st, order, Head(bfs_queue).current_token)),
                    profitable_paths)

\* sort_by: stable, by estimated profit, descending.
RECURSIVE insert_by_profit(_, _, _)
insert_by_profit(st, sorted, path) ==
    IF sorted = <<>> THEN <<path>>
    ELSE IF estimate_path_profit(st, Head(sorted)) >= estimate_path_profit(st, path)
    THEN <<Head(sorted)>> \o insert_by_profit(st, Tail(sorted), path)
    ELSE <<path>> \o sorted

RECURSIVE sort_by_profit(_, _, _)
sort_by_profit(st, paths, sorted) ==
    IF paths = <<>> THEN sorted
    ELSE sort_by_profit(st, Tail(paths), insert_by_profit(st, sorted, Head(paths)))

find_profitable_paths(st, order, start_token) ==
    Only({ IF top_paths = <<>> THEN None ELSE Some(top_paths)
         : top_paths \in
             { SubSeq(sorted, 1, Min(5, Len(sorted)))
               : sorted \in
                   {sort_by_profit(st,
                        bfs_cycles(st, order, start_token,
                            <<[current_token |-> start_token, path |-> <<>>,
                               visited_pools |-> {}]>>,
                            <<>>),
                        <<>>)} } })

\* ExecuteArbitrage of the multi-strategy crate.
MsExecuteArbitrage(path, expected_profit) ==
    [kind |-> "ExecuteArbitrage", path |-> path, expected_profit |-> expected_profit]

\* The opportunities of one start token's paths.
RECURSIVE opportunities_of_paths(_, _, _)
opportunities_of_paths(st, cfg, paths) ==
    IF paths = <<>> THEN <<>>
    ELSE (IF calculate_path_profit(st, Head(paths)) >= cfg.min_profit_threshold
          THEN <<MsExecuteArbitrage(Head(paths), calculate_path_profit(st, Head(paths)))>>
          ELSE <<>>)
         \o opportunities_of_paths(st, cfg, Tail(paths))

\* The token loop of find_arbitrage_opportunities run over every token of the
\* pool graph instead of config.monitored_tokens.
opportunities_of_graph_tokens(st, cfg, order, tokens) ==
    Only({ IF paths.some THEN opportunities_of_paths(st, cfg, paths.val) ELSE <<>>
         : paths \in {find_profitable_paths(st, order, "WETH")} })
    \o Only({ IF paths.some THEN opportunities_of_paths(st, cfg, paths.val) ELSE <<>>
            : paths \in {find_profitable_paths(st, order, "DAI")} })

RECURSIVE opportunities_of_tokens(_, _, _, _)
opportunities_of_tokens(st, cfg, order, tokens) ==
    IF tokens = <<>> THEN <<>>
    ELSE Only({ IF paths.some THEN opportunities_of_paths(st, cfg, paths.val) ELSE <<>>
              : paths \in {find_profitable_paths(st, order, Head(tokens))} })
         \o opportunities_of_tokens(st, cfg, order, Tail(tokens))

-----------------------------------------------------------------------------
(* multi-strategy crate: handlers *)

\* update_v2_pool_reserves for one pool whose getReserves call returned
\* <<reserve0, reserve1>>.
update_v2_pool_reserves(st, pool_address, tokens, pool_type, reserves) ==
    LET pool_reserves == [token0 |-> tokens[1], token1 |-> tokens[2],
                          reserve0 |-> reserves[1], reserve1 |-> reserves[2],
                          pool_type |-> pool_type]
        with_pool == [st EXCEPT !.pool_reserves[pool_address] = Some(pool_reserves)]
    IN  IF tokens[1] = weth_address
        THEN [with_pool EXCEPT !.token_prices[tokens[2]] =
                                   Some(Ratio(reserves[1], reserves[2]))]
        ELSE IF tokens[2] = weth_address
        THEN [with_pool EXCEPT !.token_prices[tokens[1]] =
                                   Some(Ratio(reserves[2], reserves[1]))]
        ELSE with_pool

\* update_pool_reserves_for_config; rpc_ok tells whether the node answered.
update_pool_reserves_for_config(st, node, pool_config, rpc_ok) ==
    CASE pool_config.pool_type \in {"UniswapV2", "SushiSwap"} ->
             IF rpc_ok
             THEN update_v2_pool_reserves(st, pool_config.address, pool_config.tokens,
                                          pool_config.pool_type, node[pool_config.address])
             ELSE st
      [] OTHER -> st    \* Curve: nothing; UniswapV3 without a fee tier: nothing

\* update_pool_reserves: the per-pool futures run under join_all and finish in
\* the order done; answered is the set of pools whose call succeeded.
RECURSIVE update_pool_reserves(_, _, _, _, _)
update_pool_reserves(st, node, monitored_pools, done, answered) ==
    IF done = <<>> THEN st
    ELSE update_pool_reserves(
             update_pool_reserves_for_config(st, node, monitored_pools[Head(done)],
                 monitored_pools[Head(done)].address \in answered),
             node, monitored_pools, Tail(done), answered)

\* now.duration_since(tx.sent_at).unwrap_or(Duration::from_secs(0)): the age
\* of a tracked transaction, zero when sent_at lies after now.
tx_age(tx, now) == IF now >= tx.sent_at THEN now - tx.sent_at ELSE 0

\* update_expired_transactions with `>=` in place of `>`: a transaction whose
\* age equals the timeout is dropped too.
update_expired_transactions_inclusive(m, now) ==
    LET expired_txs == {tx \in m.state.tracked_txs :
                            tx_age(tx, now) >= m.config.submission_timeout}
    IN  [m EXCEPT !.state.tracked_txs = @ \ expired_txs,
                  !.metrics.failed_txs = @ + Cardinality(expired_txs)]

\* update_expired_transactions: expired entries leave tracked_txs and count
\* as failed.  Nothing in the crate inserts into the public map tracked_txs;
\* its entries (one per hash) come from the host.
update_expired_transactions(m, now) ==
    LET expired_txs == {tx \in m.state.tracked_txs :
                            tx_age(tx, now) > m.config.submission_timeout}
    IN  [m EXCEPT !.state.tracked_txs = @ \ expired_txs,
                  !.metrics.failed_txs = @ + Cardinality(expired_txs)]

\* U256::max_value(), scaled down.
U256_MAX == 1073741823

\* The swap entries create_backrun_data pushes for the legs from index i on:
\* (pool, zero_for_one, amount) for a V2, Sushi or V3 leg, nothing for a
\* Curve leg.
RECURSIVE backrun_swap_data(_, _)
backrun_swap_data(path, i) ==
    IF i > Len(path.swaps) THEN <<>>
    ELSE (IF path.swaps[i].pool_type = "Curve" THEN <<>>
          ELSE <<[pool |-> path.swaps[i].pool,
                  zero_for_one |-> path.swaps[i].zero_for_one,
                  amount |-> IF i = 1 THEN path.borrow_amount ELSE U256_MAX]>>)
         \o backrun_swap_data(path, i + 1)

\* create_backrun_data: the executeArbitrage call by its three arguments.
create_backrun_data(path) ==
    [function |-> "executeArbitrage", loanToken |-> path.start_token,
     loanAmount |-> path.borrow_amount, arbData |-> backrun_swap_data(path, 1)]

\* ExecuteBackrun of the multi-strategy crate.
MsExecuteBackrun(target_tx, backrun_data, expected_profit) ==
    [kind |-> "ExecuteBackrun", target_tx |-> target_tx, backrun_data |-> backrun_data,
     expected_profit |-> expected_profit]

\* The backruns of one start token's paths.
RECURSIVE backruns_of_paths(_, _, _, _)
backruns_of_paths(st, cfg, paths, target_tx) ==
    IF paths = <<>> THEN <<>>
    ELSE (IF calculate_path_profit(st, Head(paths)) >= cfg.min_profit_threshold
          THEN <<MsExecuteBackrun(target_tx, create_backrun_data(Head(paths)),
                                  calculate_path_profit(st, Head(paths)))>>
          ELSE <<>>)
         \o backruns_of_paths(st, cfg, Tail(paths), target_tx)

\* The backruns searched from one token of the affected pool.
backruns_of_token(st, cfg, order, token, target_tx) ==
    Only({ IF paths.some THEN backruns_of_paths(st, cfg, paths.val, target_tx) ELSE <<>>
         : paths \in {find_profitable_paths(st, order, token)} })

\* process_mev_share past its enable_backrunning check: the event must be a
\* transaction sent to a pool with cached reserves; the search starts from
\* token0, then token1 of that pool.
backruns_of_event(st, cfg, order, event) ==
    IF event.variant # "Transaction" THEN <<>>
    ELSE IF ~event.to.some THEN <<>>
    ELSE IF event.to.val \notin DOMAIN st.pool_reserves THEN <<>>
    ELSE IF ~st.pool_reserves[event.to.val].some THEN <<>>
    ELSE backruns_of_token(st, cfg, order, st.pool_reserves[event.to.val].val.token0,
                           event.hash)
         \o backruns_of_token(st, cfg, order, st.pool_reserves[event.to.val].val.token1,
                              event.hash)

\* process_mev_share without its enable_backrunning check.
process_mev_share_unchecked(st, cfg, order, event) ==
    backruns_of_event(st, cfg, order, event)

\* process_mev_share: the actions it returns; metrics.backrunning_opportunities
\* grows by their number.
process_mev_share(st, cfg, order, event) ==
    IF ~cfg.enable_backrunning THEN <<>>
    ELSE backruns_of_event(st, cfg, order, event)

\* process_block: the actions it returns when the reserve calls of `answered`
\* succeed and complete in the order `done`.
process_block(st, cfg, order, node, done, answered) ==
    IF ~cfg.enable_arbitrage THEN <<>>
    ELSE opportunities_of_tokens(
             update_pool_reserves(st, node, cfg.monitored_pools, done, answered),
             cfg, order, cfg.monitored_tokens)

-----------------------------------------------------------------------------
(* multi-strategy-flash crate: data *)

\* Largest gas price (gwei) the node reports to this strategy.
FlashMaxGas == 1

flash_gas_used == 500000
wmatic_address == "WMATIC"
FlashTokens == <<"WMATIC", "USDC">>
ZeroAddress == "0x0"

\* The pools the node knows for the token pair: a QuickSwap pair and a Curve
\* pool; no Uniswap V3 pool exists (getPool answers the zero address).
FlashPoolAddrs == <<"qs", "cv">>

\* Reserves at the node: <<reserve of WMATIC, reserve of USDC>>.
FlashReserveSnapshots ==
    [qs : {<<40000, 160000>>, <<200000, 200000>>},
     cv : {<<1000, 1000>>}]

\* Three tokens and a QuickSwap pair for each two of them; reserves are
\* <<reserve of token0, reserve of token1>> of the pair.
FlashTriTokens == <<"WMATIC", "USDC", "DAI">>

FlashTriSnapshots ==
    [qs : {<<1000, 4000>>, <<2000, 2000>>},
     qd : {<<4000, 4000>>},
     qw : {<<4000, 1000>>, <<2000, 2000>>}]

FlashTriConfigs ==
    [enabled_strategies : {<<"Arbitrage">>},
     tokens : {FlashTriTokens},
     gas_price_multiplier_pct : {100},
     max_slippage_permille : {5},
     flash_loan_fee_bps : {9},
     arbitrage : [max_path_length : {3, 4},
                  min_profit_threshold : {0},
                  max_flash_loan_amount : {ETH_UNIT \div 2},
                  preferred_flash_loan_provider : {"Aave"}],
     jit_liquidity : [min_fee_expected : {0},
                      preferred_flash_loan_provider : {"Balancer"}],
     mev_share : [backrun_enabled : {FALSE}, min_backrun_profit : {0}]]

FlashConfigs ==
    [enabled_strategies : {<<"Arbitrage", "JitLiquidity", "MEVShareBackrun">>,
                           <<"JitLiquidity", "Arbitrage">>},
     tokens : {FlashTokens},
     gas_price_multiplier_pct : {100},
     max_slippage_permille : {5},
     flash_loan_fee_bps : {9},
     arbitrage : [max_path_length : {3},
                  min_profit_threshold : {0, FX},
                  max_flash_loan_amount : {ETH_UNIT \div 2},
                  preferred_flash_loan_provider : {"Aave"}],
     jit_liquidity : [min_fee_expected : {0},
                      preferred_flash_loan_provider : {"Balancer"}],
     mev_share : [backrun_enabled : BOOLEAN, min_backrun_profit : {0}]]

\* What the factories and the registry of the node answer for each pool
\* address: QuickSwap pairs (token0 is the lower address) and a Curve pool.
\* A node holds a subset of these pools.
FlashDirectory ==
    [qs |-> [dex_type |-> "UniswapV2", token0 |-> "WMATIC", token1 |-> "USDC"],
     cv |-> [dex_type |-> "Curve", token0 |-> "WMATIC", token1 |-> "USDC"],
     qd |-> [dex_type |-> "UniswapV2", token0 |-> "USDC", token1 |-> "DAI"],
     qw |-> [dex_type |-> "UniswapV2", token0 |-> "WMATIC", token1 |-> "DAI"]]

\* The strategy after MultiStrategy::new (State::default()), with the
\* iteration order of its pools map and the node it talks to.  `searched` is
\* an observation: the cycles the path search dequeued, per start token, in
\* the last process_event.
FlashConstructed(cfg, order, node) ==
    [config |-> cfg,
     hash_order |-> order,
     node |-> node,
     state |-> [pools |-> [a \in DOMAIN FlashDirectory |-> None],
                token_prices |-> [t \in {"WMATIC", "USDC", "DAI"} |-> None],
                gas_price |-> 0],
     called |-> FALSE,
     event |-> [json |-> FALSE, type |-> "none", txHash |-> FALSE, hints |-> "none",
                tx_known |-> FALSE],
     returned |-> <<>>,
     searched |-> <<>>,
     tx_data |-> <<>>]

FlashQuiet == [qs |-> <<200000, 200000>>, cv |-> <<1000, 1000>>]

\* The multi-strategy-flash instance of the runs that do not exercise it.
FlashIdle ==
    FlashConstructed([enabled_strategies |-> <<"Arbitrage", "JitLiquidity", "MEVShareBackrun">>,
                      tokens |-> FlashTokens,
                      gas_price_multiplier_pct |-> 100,
                      max_slippage_permille |-> 5,
                      flash_loan_fee_bps |-> 9,
                      arbitrage |-> [max_path_length |-> 3,
                                     min_profit_threshold |-> 0,
                                     max_flash_loan_amount |-> ETH_UNIT \div 2,
                                     preferred_flash_loan_provider |-> "Aave"],
                      jit_liquidity |-> [min_fee_expected |-> 0,
                                         preferred_flash_loan_provider |-> "Balancer"],
                      mev_share |-> [backrun_enabled |-> TRUE, min_backrun_profit |-> 0]],
                     FlashPoolAddrs, FlashQuiet)

\* pools.len() and pools.values(), in iteration order.
RECURSIVE flash_pool_values(_, _)
flash_pool_values(st, order) ==
    IF order = <<>> THEN <<>>
    ELSE (IF st.pools[Head(order)].some THEN <<st.pools[Head(order)].val>> ELSE <<>>)
         \o flash_pool_values(st, Tail(order))

-----------------------------------------------------------------------------
(* multi-strategy-flash crate: quotes and profit *)

\* estimate_gas_cost: gas_price in gwei * 500000 / 10^9 ETH, times the multiplier.
flash_estimate_gas_cost(st, cfg) ==
    ((((st.gas_price * (flash_gas_used \div 1000)) * FX) \div 1000000)
        * cfg.gas_price_multiplier_pct) \div 100

\* calculate_swap_output for the pool types of this model; a Uniswap V3 pool
\* never enters state.pools here.
flash_calculate_swap_output(pool, token_in, amount_in, zero_for_one) ==
    LET token_out == IF zero_for_one THEN pool.token1 ELSE pool.token0
        reserve_in == IF zero_for_one THEN pool.reserve0 ELSE pool.reserve1
        reserve_out == IF zero_for_one THEN pool.reserve1 ELSE pool.reserve0
    IN  CASE pool.dex_type = "UniswapV2" ->
                 <<((amount_in * 997) * reserve_out)
                       \div (reserve_in * 1000 + amount_in * 997), token_out>>
          [] pool.dex_type = "Curve" ->
                 <<(amount_in * 99) \div 100, token_out>>

\* The swaps a cycle is turned into: every hop but the last one
\* (`if i == path.len() - 1 { break; }`).  hops[i] is the hop entered with
\* current_amount; the result lists [swap, amount_out] per hop kept.
RECURSIVE flash_walk(_, _, _, _, _)
flash_walk(st, cfg, path, i, current_amount) ==
    IF i > Len(path) THEN [failed |-> FALSE, legs |-> <<>>]
    ELSE IF i = Len(path) THEN [failed |-> FALSE, legs |-> <<>>]
    ELSE IF ~st.pools[path[i][2]].some THEN [failed |-> TRUE, legs |-> <<>>]
    ELSE LET pool == st.pools[path[i][2]].val
             token_in == path[i - 1][1]
             token_out == path[i][1]
         IN  Only({ Only({ [failed |-> rest.failed,
                            legs |-> <<[swap |->
                                          [pool_address |-> path[i][2],
                                           token_in |-> token_in,
                                           token_out |-> token_out,
                                           amount_in |-> current_amount,
                                           min_amount_out |->
                                               (out[1] * (1000 - cfg.max_slippage_permille))
                                                   \div 1000,
                                           zero_for_one |-> token_in = pool.token0,
                                           dex_type |-> pool.dex_type],
                                        amount_out |-> out[1]]>> \o rest.legs]
                         : rest \in {flash_walk(st, cfg, path, i + 1, out[1])} })
                  : out \in {flash_calculate_swap_output(pool, token_in, current_amount,
                                                         token_in = pool.token0)} })

\* Value in ETH of an amount of a token at price (a ratio), as f64.
flash_value_eth(amount, price) == (format_units_18(amount) * price.num) \div price.den

simulate_arbitrage(st, cfg, path, amount) ==
    IF Len(path) < 3 \/ path[1][1] # path[Len(path)][1] THEN 0
    ELSE Only({ IF walk.failed THEN 0
                ELSE LET current_amount ==
                             IF walk.legs = <<>> THEN amount
                             ELSE walk.legs[Len(walk.legs)].amount_out
                         token_price == st.token_prices[path[1][1]]
                     IN  IF current_amount <= amount THEN 0
                         ELSE IF ~token_price.some THEN 0
                         ELSE flash_value_eth(current_amount - amount, token_price.val)
                              - (flash_value_eth(amount, token_price.val)
                                     * cfg.flash_loan_fee_bps) \div 10000
                              - flash_estimate_gas_cost(st, cfg)
              : walk \in {flash_walk(st, cfg, path, 2, amount)} })

\* The loop of calculate_optimal_borrow_amount with `>=` in place of `>`: a
\* later candidate of equal profit replaces the earlier one.
RECURSIVE try_borrow_amounts_last_wins(_, _, _, _, _, _)
try_borrow_amounts_last_wins(st, cfg, path, initial_amount, i, acc) ==
    IF i > 10 THEN acc
    ELSE IF initial_amount * i > cfg.arbitrage.max_flash_loan_amount THEN acc
    ELSE Only({ try_borrow_amounts_last_wins(st, cfg, path, initial_amount, i + 1,
                    IF profit >= acc.best_profit
                    THEN [best_amount |-> initial_amount * i, best_profit |-> profit]
                    ELSE acc)
              : profit \in {simulate_arbitrage(st, cfg, path, initial_amount * i)} })

\* The loop of calculate_optimal_borrow_amount: acc = [best_amount, best_profit].
RECURSIVE try_borrow_amounts(_, _, _, _, _, _)
try_borrow_amounts(st, cfg, path, initial_amount, i, acc) ==
    IF i > 10 THEN acc
    ELSE IF initial_amount * i > cfg.arbitrage.max_flash_loan_amount THEN acc
    ELSE Only({ try_borrow_amounts(st, cfg, path, initial_amount, i + 1,
                    IF profit > acc.best_profit
                    THEN [best_amount |-> initial_amount * i, best_profit |-> profit]
                    ELSE acc)
              : profit \in {simulate_arbitrage(st, cfg, path, initial_amount * i)} })

calculate_optimal_borrow_amount(st, cfg, path) ==
    Only({ IF best.best_profit > 0 THEN Some(best.best_amount) ELSE None
         : best \in {try_borrow_amounts(st, cfg, path,
                         cfg.arbitrage.max_flash_loan_amount \div 100, 1,
                         [best_amount |-> cfg.arbitrage.max_flash_loan_amount \div 100,
                          best_profit |-> 0])} })

create_arbitrage_path(st, cfg, path) ==
    IF Len(path) < 3 \/ path[1][1] # path[Len(path)][1] THEN None
    ELSE Only({ IF ~borrow_amount.some THEN None
                ELSE Only({ IF walk.failed \/ walk.legs = <<>> THEN None
                            ELSE IF walk.legs[Len(walk.legs)].swap.min_amount_out
                                        <= borrow_amount.val
                            THEN None
                            ELSE Some([start_token |-> path[1][1],
                                       borrow_amount |-> borrow_amount.val,
                                       swaps |-> [k \in 1..Len(walk.legs) |->
                                                     walk.legs[k].swap],
                                       flash_loan_provider |->
                                           cfg.arbitrage.preferred_flash_loan_provider])
                          : walk \in {flash_walk(st, cfg, path, 2, borrow_amount.val)} })
              : borrow_amount \in {calculate_optimal_borrow_amount(st, cfg, path)} })

estimate_arbitrage_profit(st, cfg, path) ==
    IF path.swaps = <<>> THEN None
    ELSE LET final_amount == path.swaps[Len(path.swaps)].min_amount_out
             token_price == st.token_prices[path.start_token]
         IN  IF final_amount <= path.borrow_amount THEN None
             ELSE IF ~token_price.some THEN None
             ELSE Only({ IF total_profit > 0 THEN Some(total_profit) ELSE None
                       : total_profit \in
                           { flash_value_eth(final_amount - path.borrow_amount,
                                             token_price.val)
                             - (flash_value_eth(path.borrow_amount, token_price.val)
                                    * cfg.flash_loan_fee_bps) \div 10000
                             - flash_estimate_gas_cost(st, cfg) } })

-----------------------------------------------------------------------------
(* multi-strategy-flash crate: path search and the strategies *)

\* graph[token]: the (next token, pool) pairs pushed while iterating pools.values().
RECURSIVE flash_graph(_, _)
flash_graph(pool_values, token) ==
    IF pool_values = <<>> THEN <<>>
    ELSE LET pool == Head(pool_values)
         IN  (IF pool.token0 = token THEN <<<<pool.token1, pool.address>>>> ELSE <<>>)
             \o (IF pool.token1 = token THEN <<<<pool.token0, pool.address>>>> ELSE <<>>)
             \o flash_graph(Tail(pool_values), token)

\* The queue entries pushed for one dequeued path.
RECURSIVE flash_expand(_, _)
flash_expand(path, next_tokens) ==
    IF next_tokens = <<>> THEN <<>>
    ELSE (IF \E k \in 1..Len(path) :
                  path[k][2] = Head(next_tokens)[2] /\ path[k][2] # ZeroAddress
          THEN <<>>
          ELSE <<Append(path, Head(next_tokens))>>)
         \o flash_expand(path, Tail(next_tokens))

\* The breadth-first loop of find_profitable_paths.
RECURSIVE flash_bfs(_, _, _, _)
flash_bfs(cfg, pool_values, start_token, bfs_queue) ==
    IF bfs_queue = <<>> THEN <<>>
    ELSE IF Len(Head(bfs_queue)) > 1
            /\ Head(bfs_queue)[Len(Head(bfs_queue))][1] = start_token
    THEN <<Head(bfs_queue)>> \o flash_bfs(cfg, pool_values, start_token, Tail(bfs_queue))
    ELSE IF Len(Head(bfs_queue)) >= cfg.arbitrage.max_path_length
    THEN flash_bfs(cfg, pool_values, start_token, Tail(bfs_queue))
    ELSE flash_bfs(cfg, pool_values, start_token,
                   Tail(bfs_queue)
                       \o flash_expand(Head(bfs_queue),
                              flash_graph(pool_values,
                                  Head(bfs_queue)[Len(Head(bfs_queue))][1])))

\* The cycles the search of find_profitable_paths dequeues for one start
\* token, in order (none when fewer than two pools are loaded).
flash_cycles(st, cfg, order, start_token) ==
    Only({ IF Len(pool_values) < 2 THEN <<>>
           ELSE flash_bfs(cfg, pool_values, start_token,
                          <<<<<<start_token, ZeroAddress>>>>>>)
         : pool_values \in {flash_pool_values(st, order)} })

\* The `if let Some(arb_path) = create_arbitrage_path(..)` push on each
\* dequeued cycle.
RECURSIVE flash_arb_paths(_, _, _)
flash_arb_paths(st, cfg, cycles) ==
    IF cycles = <<>> THEN <<>>
    ELSE Only({ (IF arb_path.some THEN <<arb_path.val>> ELSE <<>>)
                    \o flash_arb_paths(st, cfg, Tail(cycles))
              : arb_path \in {create_arbitrage_path(st, cfg, Head(cycles))} })

flash_find_profitable_paths(st, cfg, order, start_token) ==
    Only({ IF profitable_paths = <<>> THEN None ELSE Some(profitable_paths)
         : profitable_paths \in
             {flash_arb_paths(st, cfg, flash_cycles(st, cfg, order, start_token))} })

\* The inner loop of find_arbitrage_opportunities over the paths of one token:
\* acc = [aborted, most_profitable_path, highest_profit, searched]; `?` on the
\* estimate leaves the whole function with None.  `searched` lists the start
\* tokens whose search ran.
RECURSIVE flash_best_of_paths(_, _, _, _)
flash_best_of_paths(st, cfg, paths, acc) ==
    IF paths = <<>> \/ acc.aborted THEN acc
    ELSE Only({ flash_best_of_paths(st, cfg, Tail(paths),
                    IF ~estimated_profit.some THEN [acc EXCEPT !.aborted = TRUE]
                    ELSE IF estimated_profit.val > acc.highest_profit
                            /\ estimated_profit.val > cfg.arbitrage.min_profit_threshold
                    THEN [acc EXCEPT !.most_profitable_path = Some(Head(paths)),
                                     !.highest_profit = estimated_profit.val]
                    ELSE acc)
              : estimated_profit \in {estimate_arbitrage_profit(st, cfg, Head(paths))} })

RECURSIVE flash_best_of_tokens(_, _, _, _, _)
flash_best_of_tokens(st, cfg, order, tokens, acc) ==
    IF tokens = <<>> \/ acc.aborted THEN acc
    ELSE Only({ flash_best_of_tokens(st, cfg, order, Tail(tokens),
                    IF paths.some
                    THEN flash_best_of_paths(st, cfg, paths.val,
                             [acc EXCEPT !.searched = Append(@, Head(tokens))])
                    ELSE [acc EXCEPT !.searched = Append(@, Head(tokens))])
              : paths \in {flash_find_profitable_paths(st, cfg, order, Head(tokens))} })

\* ExecuteArbitrage of the multi-strategy-flash crate.
FlashExecuteArbitrage(path, expected_profit) ==
    [kind |-> "ExecuteArbitrage", path |-> path, expected_profit |-> expected_profit]

flash_find_arbitrage_opportunities(st, cfg, order) ==
    Only({ IF best.aborted \/ ~best.most_profitable_path.some THEN None
           ELSE Some(FlashExecuteArbitrage(best.most_profitable_path.val,
                                           best.highest_profit))
         : best \in {flash_best_of_tokens(st, cfg, order, cfg.tokens,
                         [aborted |-> FALSE, most_profitable_path |-> None,
                          highest_profit |-> 0, searched |-> <<>>])} })

Contains(seq, x) == \E k \in 1..Len(seq) : seq[k] = x

calculate_optimal_liquidity_amounts(pool) ==
    <<pool.reserve0 \div 100, pool.reserve1 \div 100>>

\* estimate_jit_fee: 0.1% of the liquidity's value.
estimate_jit_fee(st, pool, amount0, amount1) ==
    IF ~st.token_prices[pool.token0].some \/ ~st.token_prices[pool.token1].some THEN None
    ELSE Some((flash_value_eth(amount0, st.token_prices[pool.token0].val)
               + flash_value_eth(amount1, st.token_prices[pool.token1].val)) \div 1000)

ExecuteJitLiquidity(pool, amounts, cfg, expected_profit) ==
    [kind |-> "ExecuteJitLiquidity",
     params |-> [pool |-> pool.address, token0 |-> pool.token0, token1 |-> pool.token1,
                 amount0 |-> amounts[1], amount1 |-> amounts[2],
                 dex_type |-> pool.dex_type,
                 flash_loan_provider |-> cfg.jit_liquidity.preferred_flash_loan_provider,
                 fee |-> Some(pool.fee)],
     expected_profit |-> expected_profit]

find_jit_opportunities(st, cfg, order) ==
    IF ~Contains(cfg.enabled_strategies, "JitLiquidity") THEN None
    ELSE Only({ IF pools = <<>> THEN None
                ELSE Only({ Only({ IF ~expected_fee.some THEN None
                                   ELSE Only({ IF total_profit
                                                    > cfg.jit_liquidity.min_fee_expected
                                               THEN Some(ExecuteJitLiquidity(pools[1],
                                                        amounts, cfg, total_profit))
                                               ELSE None
                                             : total_profit \in
                                                 { expected_fee.val
                                                   - (flash_value_eth(amounts[1],
                                                          st.token_prices[pools[1].token0].val)
                                                        * cfg.flash_loan_fee_bps) \div 10000
                                                   - flash_estimate_gas_cost(st, cfg) } })
                                 : expected_fee \in
                                     {estimate_jit_fee(st, pools[1], amounts[1], amounts[2])} })
                          : amounts \in {calculate_optimal_liquidity_amounts(pools[1])} })
              : pools \in {flash_pool_values(st, order)} })

\* The loop of process_block_event over config.enabled_strategies.
RECURSIVE flash_block_actions(_, _, _, _)
flash_block_actions(st, cfg, order, strategy_types) ==
    IF strategy_types = <<>> THEN <<>>
    ELSE Only({ (IF action.some THEN <<action.val>> ELSE <<>>)
                \o flash_block_actions(st, cfg, order, Tail(strategy_types))
              : action \in
                  { CASE Head(strategy_types) = "Arbitrage" ->
                             flash_find_arbitrage_opportunities(st, cfg, order)
                      [] Head(strategy_types) = "JitLiquidity" ->
                             find_jit_opportunities(st, cfg, order)
                      [] OTHER -> None } })

flash_process_block_event(st, cfg, order) ==
    flash_block_actions(st, cfg, order, cfg.enabled_strategies)

\* Events as the strategy sees them: bytes that are no JSON, envelopes with
\* a "type" key (a block tick and the other envelope types of the collectors,
\* "unknown" for any other value), and MEV-Share hints with a txHash.  The
\* hinted transaction, when the node knows it, has no receipt yet, so
\* create_backrun_transaction answers None.
FlashEvents ==
    [json : {FALSE}, type : {"none"}, txHash : {FALSE}, hints : {"none"},
     tx_known : {FALSE}]
    \cup [json : {TRUE},
          type : {"block", "error", "liquidation_events", "health_check", "unknown"},
          txHash : {FALSE}, hints : {"none"}, tx_known : {FALSE}]
    \cup [json : {TRUE}, type : {"none"}, txHash : {TRUE},
          hints : {"none", "swaps", "transfers"}, tx_known : BOOLEAN]

create_backrun_transaction(event) == None

process_mev_share_event(cfg, event) ==
    IF ~cfg.mev_share.backrun_enabled \/ ~Contains(cfg.enabled_strategies, "MEVShareBackrun")
    THEN None
    ELSE IF ~event.json THEN None
    ELSE IF ~event.txHash THEN None
    ELSE IF event.hints = "none" THEN None
    ELSE IF ~event.tx_known THEN None
    ELSE create_backrun_transaction(event)

flash_process_event(st, cfg, order, event) ==
    Only({ IF action.some THEN <<action.val>>
           ELSE flash_process_block_event(st, cfg, order)
         : action \in {process_mev_share_event(cfg, event)} })

\* The cycles dequeued by the path search during process_event, per start
\* token searched: <<start_token, cycles>>.
flash_searched(st, cfg, order, event) ==
    IF process_mev_share_event(cfg, event).some
       \/ ~Contains(cfg.enabled_strategies, "Arbitrage")
    THEN <<>>
    ELSE Only({ [k \in 1..Len(best.searched) |->
                    <<best.searched[k], flash_cycles(st, cfg, order, best.searched[k])>>]
              : best \in {flash_best_of_tokens(st, cfg, order, cfg.tokens,
                              [aborted |-> FALSE, most_profitable_path |-> None,
                               highest_profit |-> 0, searched |-> <<>>])} })

-----------------------------------------------------------------------------
(* multi-strategy-flash example: from actions to transaction data *)

\* create_arb_transaction: the calldata is the four selector bytes; nothing of
\* the path is appended.
create_arb_transaction(path) == <<18, 52, 86, 120>>

\* map_action_to_executor_action: the calldata built for the ExecuteArbitrage
\* actions, in the order of the actions.
RECURSIVE map_action_to_executor_action(_)
map_action_to_executor_action(actions) ==
    IF actions = <<>> THEN <<>>
    ELSE (IF Head(actions).kind = "ExecuteArbitrage"
          THEN <<create_arb_transaction(Head(actions).path)>>
          ELSE <<>>)
         \o map_action_to_executor_action(Tail(actions))

\* The swap entries a reader of executeArbitrage calldata finds after the
\* four selector bytes.
calldata_swaps(calldata) == SubSeq(calldata, 5, Len(calldata))

-----------------------------------------------------------------------------
(* multi-strategy-flash crate: update_state *)

RECURSIVE GCD(_, _)
GCD(a, b) == IF b = 0 THEN a ELSE GCD(b, a % b)

\* The f64 quotient a / b (b > 0), as a ratio in lowest terms.
f64_div(a, b) == IF a = 0 THEN Ratio(0, 1) ELSE Ratio(a \div GCD(a, b), b \div GCD(a, b))

\* The loop of get_token_price over pools.values(): acc = [best_pool, highest_liquidity].
RECURSIVE best_price_pool(_, _, _, _)
best_price_pool(pool_values, token, weth, acc) ==
    IF pool_values = <<>> THEN acc
    ELSE LET pool == Head(pool_values)
             liquidity == IF pool.token0 = weth THEN pool.reserve0 * 2
                          ELSE pool.reserve1 * 2
         IN  best_price_pool(Tail(pool_values), token, weth,
                 IF ((pool.token0 = token /\ pool.token1 = weth)
                        \/ (pool.token1 = token /\ pool.token0 = weth))
                    /\ liquidity > acc.highest_liquidity
                 THEN [best_pool |-> Some(pool), highest_liquidity |-> liquidity]
                 ELSE acc)

\* get_token_price: Ok(price), 0.0 when no pool prices the token.
get_token_price(st, order, token, weth) ==
    Only({ IF ~best.best_pool.some THEN Ratio(0, 1)
           ELSE LET pool == best.best_pool.val
                    token_reserve == IF pool.token0 = token THEN pool.reserve0
                                     ELSE pool.reserve1
                    weth_reserve == IF pool.token0 = token THEN pool.reserve1
                                    ELSE pool.reserve0
                IN  IF format_units_18(token_reserve) > 0
                    THEN f64_div(format_units_18(weth_reserve),
                                 format_units_18(token_reserve))
                    ELSE Ratio(0, 1)
         : best \in {best_price_pool(flash_pool_values(st, order), token, weth,
                         [best_pool |-> None, highest_liquidity |-> 0])} })

\* The price loop of update_state; prices are read from the pools stored by
\* earlier calls.
RECURSIVE update_token_prices(_, _, _, _)
update_token_prices(st, order, tokens, token_prices) ==
    IF tokens = <<>> THEN token_prices
    ELSE IF Head(tokens) = wmatic_address
    THEN update_token_prices(st, order, Tail(tokens),
             [token_prices EXCEPT ![Head(tokens)] = Some(Ratio(1, 1))])
    ELSE Only({ update_token_prices(st, order, Tail(tokens),
                    IF price.num > 0
                    THEN [token_prices EXCEPT ![Head(tokens)] = Some(price)]
                    ELSE token_prices)
              : price \in {get_token_price(st, order, Head(tokens), wmatic_address)} })

\* One turn of the pool loop of update_state, for the token pair
\* (token_a, token_b): `answered` are the pools whose lookups succeed,
\* cv_balances whether the balanceOf calls on a Curve pool do
\* (get_token_balance answers 0 otherwise).
update_pools(pools, node, token_a, token_b, answered, cv_balances) ==
    [a \in DOMAIN pools |->
        IF a \in DOMAIN node /\ a \in answered
           /\ {FlashDirectory[a].token0, FlashDirectory[a].token1} = {token_a, token_b}
        THEN CASE FlashDirectory[a].dex_type = "UniswapV2" ->
                     Some([address |-> a, token0 |-> FlashDirectory[a].token0,
                           token1 |-> IF FlashDirectory[a].token0 = token_a
                                      THEN token_b ELSE token_a,
                           reserve0 |-> node[a][1], reserve1 |-> node[a][2],
                           fee |-> 30, dex_type |-> "UniswapV2"])
               [] FlashDirectory[a].dex_type = "Curve" ->
                     Some([address |-> a, token0 |-> token_a, token1 |-> token_b,
                           reserve0 |-> IF cv_balances THEN node[a][1] ELSE 0,
                           reserve1 |-> IF cv_balances THEN node[a][2] ELSE 0,
                           fee |-> 4, dex_type |-> "Curve"])
        ELSE pools[a]]

\* The pool loop of update_state: for i in 0..len, for j in i+1..len.
RECURSIVE update_pairs(_, _, _, _, _, _, _)
update_pairs(pools, node, tokens, i, j, answered, cv_balances) ==
    IF i > Len(tokens) THEN pools
    ELSE IF j > Len(tokens)
    THEN update_pairs(pools, node, tokens, i + 1, i + 2, answered, cv_balances)
    ELSE update_pairs(update_pools(pools, node, tokens[i], tokens[j], answered, cv_balances),
                      node, tokens, i, j + 1, answered, cv_balances)

\* update_state: `failed` names the first call that answers Err ("none": all
\* answer); get_block_number and get_gas_price leave with `?`.
update_state(st, cfg, order, node, failed, gas_price, answered, cv_balances) ==
    IF failed \in {"get_block_number", "get_gas_price"} THEN st
    ELSE [pools |-> update_pairs(st.pools, node, cfg.tokens, 1, 2, answered, cv_balances),
          token_prices |-> update_token_prices(st, order, cfg.tokens, st.token_prices),
          gas_price |-> gas_price]

-----------------------------------------------------------------------------
(* Liquidation collector: health monitoring *)

collector_gas_cost_estimate == 500000

\* get_users_with_positions: the source returns None for every asset.
get_users_with_positions(asset) == None

\* check_liquidation_opportunity.  The collector's own get_user_health_factor,
\* get_user_account_data, get_liquidation_bonus and get_asset_price decode the
\* same calls as the strategy's and answer None on an error or a short
\* result; reads[1] is the chain as the health-factor call sees it, reads[2]
\* as the account-data call and the later calls see it.
check_liquidation_opportunity(reads, rpc_ok, cfg, user, debt_asset) ==
    LET health_factor == get_user_health_factor(reads[1], rpc_ok, user)
    IN  IF ~health_factor.some THEN None
        ELSE IF health_factor.val >= HF_ONE THEN None
        ELSE
        LET user_data == get_user_account_data(reads[2], rpc_ok, user)
            collateral == IF cfg.monitored_assets = <<>> THEN None
                          ELSE Some(cfg.monitored_assets[1])
        IN  IF ~user_data.some \/ ~collateral.some THEN None
            ELSE
            LET liquidation_bonus == get_liquidation_bonus(reads[2], rpc_ok, collateral.val)
                max_debt_to_cover ==
                    Min((user_data.val.total_debt_eth * 5000) \div 10000,
                        cfg.max_liquidation_amount)
            IN  IF ~liquidation_bonus.some THEN None
                ELSE
                LET expected_profit ==
                        calculate_liquidation_profit(reads[2], rpc_ok, collateral.val,
                                                     debt_asset, max_debt_to_cover,
                                                     liquidation_bonus.val)
                IN  IF ~expected_profit.some THEN None
                    ELSE Some([user |-> user,
                               collateral_asset |-> collateral.val,
                               debt_asset |-> debt_asset,
                               debt_to_cover |-> max_debt_to_cover,
                               health_factor |-> health_factor.val,
                               liquidation_bonus |-> liquidation_bonus.val,
                               expected_profit |-> expected_profit.val,
                               gas_cost_estimate |-> collector_gas_cost_estimate,
                               receive_a_token |-> FALSE])

\* The targets of the users of one asset (the inner loop of
\* monitor_user_health_factors).
RECURSIVE opportunities_of_users(_, _, _, _, _)
opportunities_of_users(ch, rpc_ok, cfg, users, asset) ==
    IF users = <<>> THEN <<>>
    ELSE LET t == check_liquidation_opportunity(<<ch, ch>>, rpc_ok, cfg, Head(users), asset)
         IN  (IF t.some THEN <<t.val>> ELSE <<>>)
             \o opportunities_of_users(ch, rpc_ok, cfg, Tail(users), asset)

RECURSIVE opportunities_of_assets(_, _, _, _)
opportunities_of_assets(ch, rpc_ok, cfg, assets) ==
    IF assets = <<>> THEN <<>>
    ELSE LET users == get_users_with_positions(Head(assets))
         IN  (IF users.some
              THEN opportunities_of_users(ch, rpc_ok, cfg, users.val, Head(assets))
              ELSE <<>>)
             \o opportunities_of_assets(ch, rpc_ok, cfg, Tail(assets))

\* monitor_user_health_factors: the JSON object of the envelope, by its
\* keys (the timestamp of a health_check is left out).
monitor_user_health_factors(ch, rpc_ok, cfg) ==
    LET liquidation_opportunities ==
            opportunities_of_assets(ch, rpc_ok, cfg, cfg.monitored_assets)
    IN  IF liquidation_opportunities # <<>>
        THEN [type |-> "liquidation_opportunity",
              opportunities |-> liquidation_opportunities,
              count |-> Len(liquidation_opportunities)]
        ELSE [type |-> "health_check", monitored_assets |-> Len(cfg.monitored_assets)]

\* The fields serde requires of a JSON object to deserialize a
\* LiquidationTarget (none is optional or renamed).
LiquidationTargetFields ==
    {"user", "collateral_asset", "debt_asset", "debt_to_cover", "health_factor",
     "liquidation_bonus", "expected_profit", "gas_cost_estimate", "receive_a_token"}

\* serde_json::from_value::<LiquidationTarget>.
from_value_LiquidationTarget(json) ==
    IF LiquidationTargetFields \subseteq DOMAIN json
    THEN Some([f \in LiquidationTargetFields |-> json[f]])
    ELSE None

\* What process_event makes of the bytes of a JSON object.
event_of_json(json) ==
    [form |-> "json",
     type |-> IF "type" \in DOMAIN json THEN json.type ELSE "none",
     target |-> IF from_value_LiquidationTarget(json).some
                THEN from_value_LiquidationTarget(json).val
                ELSE NoTarget]

-----------------------------------------------------------------------------
(* Liquidation collector: data *)

\* The collector after AaveFlashLiquidationCollector::new: the stream is not
\* polled yet.
\* The block height of the node when the stream is created, and the bounds
\* of a run.
ColStartBlock == 8
ColMaxBlock == 12
ColMaxTicks == 3

\* The stream of get_event_stream before its first tick: `alive` until a
\* panic unwinds through the task polling it, `last` the item of the last
\* tick, `poll` what the node answered to the last event tick.
ColIdle ==
    [alive |-> TRUE, block |-> ColStartBlock, ticks |-> 0,
     poll |-> [block_number |-> None, logs |-> None],
     last |-> [tick |-> "none", failed |-> FALSE, envelope |-> [type |-> "none"]]]

\* collect_liquidation_events: block_number and logs are the answers of
\* get_block_number and get_logs (None: Err; logs as their number).
\* `current_block - 10` is a checked U64 subtraction: it panics below 10.
\* collect_liquidation_events with the two envelopes exchanged.
collect_liquidation_events_exchanged(block_number, logs) ==
    IF ~block_number.some THEN [kind |-> "Err", message |-> "get_block_number"]
    ELSE IF block_number.val < 10 THEN [kind |-> "panic"]
    ELSE IF ~logs.some THEN [kind |-> "Err", message |-> "get_logs"]
    ELSE IF logs.val = 0
    THEN [kind |-> "Ok",
          data |-> [type |-> "liquidation_events", events |-> logs.val,
                    block |-> block_number.val]]
    ELSE [kind |-> "Ok",
          data |-> [type |-> "block", block_number |-> block_number.val]]

collect_liquidation_events(block_number, logs) ==
    IF ~block_number.some THEN [kind |-> "Err", message |-> "get_block_number"]
    ELSE IF block_number.val < 10 THEN [kind |-> "panic"]
    ELSE IF ~logs.some THEN [kind |-> "Err", message |-> "get_logs"]
    ELSE IF logs.val # 0
    THEN [kind |-> "Ok",
          data |-> [type |-> "liquidation_events", events |-> logs.val,
                    block |-> block_number.val]]
    ELSE [kind |-> "Ok",
          data |-> [type |-> "block", block_number |-> block_number.val]]

\* The closure of a ticker in get_event_stream: the item it yields for the
\* result of its poll.
tick_item(tick, result) ==
    CASE result.kind = "Ok" ->
             [tick |-> tick, failed |-> FALSE, envelope |-> result.data]
      [] result.kind = "Err" ->
             [tick |-> tick, failed |-> TRUE,
              envelope |-> [type |-> "error", message |-> result.message]]

\* No function applied.
ProbeIdle == [fn |-> "none"]

-----------------------------------------------------------------------------
(* polygon-jit-strategy: arguments, opportunity channel, main loop *)

\* mpsc::channel(100), scaled down.
JitChannelCapacity == 2

\* Opportunities the monitor sends in one run.
JitMaxOpportunities == 3

OpportunityTypes == {"JitLiquidity", "FlashArbitrage", "BatchMicroJit"}

\* Args: the flags the main loop and the executors read.
\* The main loop requires 0.1 MATIC (10^17 wei) for gas; balances are counted
\* in units of 0.05 MATIC.
JitMinBalance == 2

\* Largest wallet balance the node reports, in the same unit.
JitMaxBalance == 3

JitArgs ==
    [aggressive : BOOLEAN, enable_jit : BOOLEAN, enable_arb : BOOLEAN,
     simulation : BOOLEAN]

\* `channel` holds the opportunities sent and not yet received, `produced` counts
\* the sends; `pc` is the main loop's position, `opportunity` the one it
\* handles and `executor` the execute_* function it is in; `attempts` counts the
\* send() calls for that opportunity, `submitted` all send() calls, `pending` the
\* submitted transactions whose receipt is awaited; `last` is how the handling
\* of the previous opportunity ended and `balance` what get_balance answered
\* for the opportunity handled last (None when it failed or was not asked).
JitIdle ==
    [args |-> [aggressive |-> TRUE, enable_jit |-> TRUE, enable_arb |-> TRUE,
               simulation |-> FALSE],
     channel |-> <<>>, produced |-> 0, pc |-> "recv", opportunity |-> "none",
     executor |-> "none", attempts |-> 0, submitted |-> 0, pending |-> 0,
     handled |-> 0, last |-> "none", balance |-> None]

\* Args::simulation as always off.
simulation_mode_off(args) == FALSE

\* Args::simulation, read by the main loop and, through Args::parse(), by every
\* execute_* function.
simulation_mode(args) == args.simulation

\* The main loop's match on opportunity_type: the executor it calls, "none"
\* when the kind is disabled or only logged.
jit_dispatch_unflagged(args, opportunity_type) ==
    CASE opportunity_type = "JitLiquidity" ->
             IF args.aggressive THEN "execute_ultra_aggressive_jit"
             ELSE "execute_balancer_jit"
      [] opportunity_type = "FlashArbitrage" -> "execute_flash_arbitrage"
      [] opportunity_type = "BatchMicroJit" -> "none"

jit_dispatch(args, opportunity_type) ==
    CASE opportunity_type = "JitLiquidity" ->
             IF ~args.enable_jit THEN "none"
             ELSE IF args.aggressive THEN "execute_ultra_aggressive_jit"
             ELSE "execute_balancer_jit"
      [] opportunity_type = "FlashArbitrage" ->
             IF args.enable_arb THEN "execute_flash_arbitrage" ELSE "none"
      [] opportunity_type = "BatchMicroJit" -> "none"

\* How the handling ends when no executor is called.
jit_skipped(opportunity_type) ==
    IF opportunity_type = "BatchMicroJit" THEN "batch_simulated" ELSE "disabled"

\* The main loop after call.send() with the next opportunity taken at once.
jit_after_send_detached(result) == "recv"

\* The main loop after call.send() with a failed send repeated.
jit_after_send_retrying(result) == IF result = "Ok" THEN "receipt" ELSE "send"

\* execute_*: after call.send() the function awaits the pending transaction on
\* Ok and returns on Err (Ok(()) for an insufficient token balance, the error
\* otherwise); the main loop logs the error and takes the next opportunity.
jit_after_send(result) == IF result = "Ok" THEN "receipt" ELSE "recv"

\* How an execute_* call that returned at call.send() ended.
jit_send_outcome(result) ==
    CASE result = "Ok" -> "sent"
      [] result = "transfer amount exceeds balance" -> "send_insufficient_tokens"
      [] result = "Err" -> "send_error"

\* The main loop is back at rx.recv().
jit_returned(j, outcome) ==
    [j EXCEPT !.pc = "recv", !.opportunity = "none", !.executor = "none",
              !.handled = @ + 1, !.last = outcome]

-----------------------------------------------------------------------------
(* polygon-jit-strategy: the mempool monitor task *)

\* seen_txs is cleared once it holds more than 10,000 hashes; scaled down.
SeenLimit == 2

\* Opportunities the monitor sends in one run.
MonMaxSent == 5

\* Number of the first block of the modelled chains; the heartbeat sample
\* is produced when the latest block number is a multiple of 20.
MonFirstBlock == 19

MonBatchInterval == 20

MonTx(hash, to_dex, detected) == [hash |-> hash, to_dex |-> to_dex, detected |-> detected]

\* Chains the node may serve: each block is the list of its transactions.
\* to_dex: tx.to is one of dex_addresses; detected: detect_opportunity
\* answers Some for it.
MonChains ==
    { << <<MonTx("t1", TRUE, TRUE), MonTx("t2", TRUE, TRUE), MonTx("t3", TRUE, TRUE)>>,
         <<MonTx("t4", TRUE, TRUE)>> >>,
      << <<MonTx("t1", TRUE, TRUE), MonTx("t2", FALSE, FALSE)>>,
         <<MonTx("t3", TRUE, FALSE), MonTx("t4", TRUE, TRUE)>> >>,
      << <<MonTx("t1", TRUE, TRUE)>>,
         <<MonTx("t2", TRUE, TRUE), MonTx("t3", FALSE, TRUE)>> >> }

MonIdle ==
    [chain |-> << <<MonTx("t1", TRUE, TRUE)>> >>, head |-> 1, simulation_mode |-> FALSE,
     seen_txs |-> {}, sent |-> <<>>, polled |-> FALSE]

RECURSIVE scan_block_txs(_, _, _)
\* The body of `for tx in block.transactions`: a hash already in seen_txs is
\* skipped; otherwise it is inserted, seen_txs is cleared when it grew past
\* the limit, and a detected opportunity on a DEX transaction is sent with
\* competitor_tx = Some(tx.hash).
scan_block_txs(txs, seen_txs, sent) ==
    IF txs = <<>> THEN [seen_txs |-> seen_txs, sent |-> sent]
    ELSE LET tx == Head(txs)
             inserted == seen_txs \cup {tx.hash}
             kept == IF Cardinality(inserted) > SeenLimit THEN {} ELSE inserted
         IN  IF tx.hash \in seen_txs
             THEN scan_block_txs(Tail(txs), seen_txs, sent)
             ELSE scan_block_txs(Tail(txs), kept,
                                 IF tx.to_dex /\ tx.detected
                                 THEN Append(sent, Some(tx.hash))
                                 ELSE sent)

\* The heartbeat branch of the select!: in simulation mode, on a block
\* number that is a multiple of 20, a BatchMicroJit sample with
\* competitor_tx = None is sent.
heartbeat_sample(m, tick, number_ok) ==
    IF tick /\ m.simulation_mode /\ number_ok
       /\ (MonFirstBlock + m.head - 1) % MonBatchInterval = 0
    THEN <<None>>
    ELSE <<>>

\* How often a transaction hash occurs as competitor_tx among the sent
\* opportunities.
TimesSent(sent, hash) == Cardinality({ i \in DOMAIN sent : sent[i] = Some(hash) })

-----------------------------------------------------------------------------
(* polygon-jit-strategy: Metrics.recent_opportunities *)

\* recent_opportunities keeps 100 entries; scaled down.
RecentCapacity == 2

\* record_opportunity calls in one run.
MetMaxCalls == 4

MetTasks == {"a", "b"}

MetIdle ==
    [pc |-> [t \in MetTasks |-> "idle"], arg |-> [t \in MetTasks |-> 0],
     holder |-> "none", recent |-> <<>>, recorded |-> <<>>, calls |-> 0,
     opportunities_detected |-> 0]

evict_newest(recent) ==
    IF Len(recent) > RecentCapacity THEN SubSeq(recent, 1, Len(recent) - 1) ELSE recent

\* if recent.len() > 100 { recent.remove(0); }
evict_oldest(recent) ==
    IF Len(recent) > RecentCapacity THEN Tail(recent) ELSE recent

\* The last n entries of a sequence.
LastN(s, n) == IF Len(s) <= n THEN s ELSE SubSeq(s, Len(s) - n + 1, Len(s))

-----------------------------------------------------------------------------
(* Single applications of program functions: drawn arguments *)

ProbeMaxReserve == 4

\* Arguments of the swap quotes: a pool over WETH/DAI (multi-strategy) or
\* WMATIC/USDC (multi-strategy-flash), an input amount and the direction.
ProbeQuoteArgs ==
    [reserve0 : 0..ProbeMaxReserve, reserve1 : 0..ProbeMaxReserve,
     amount_in : 0..ProbeMaxReserve, zero_for_one : BOOLEAN]

\* U256 division by zero panics in calculate_swap_output of the flash crate;
\* its arguments are drawn with a positive denominator.
ProbeFlashQuoteArgs ==
    { a \in ProbeQuoteArgs :
        (IF a.zero_for_one THEN a.reserve0 ELSE a.reserve1) * 1000 + a.amount_in * 997 > 0 }

\* Arguments of the target builders: the health factor the first and the
\* later getUserAccountData calls see, the total debt the calls before the
\* last and the last one see, and the two configured limits.
ProbeTargetArgs ==
    [hf1 : {HF_ONE - 1, HF_ONE, HF_ONE + 1}, hf2 : {HF_ONE - 1, HF_ONE, HF_ONE + 1},
     debt_early : {10, 40}, debt : {10, 40},
     health_factor_threshold : {HF_ONE, HF_ONE + 2},
     max_liquidation_amount : {15, BigDebt},
     rpc_ok : BOOLEAN]

ProbeConfig(args) ==
    [(CHOOSE c \in Configs : TRUE) EXCEPT
        !.health_factor_threshold = args.health_factor_threshold,
        !.max_liquidation_amount = args.max_liquidation_amount]

ProbeChain(hf, debt) ==
    [gas |-> 0, transport |-> "public",
     reserve_config |-> CHOOSE r \in ReserveConfigs : TRUE,
     price |-> [a \in Assets |-> 1],
     account |-> [u \in Users |-> [total_debt_eth |-> debt, health_factor |-> hf]]]

ProbeCall(fn, args) == [fn |-> fn, args |-> args, done |-> FALSE, out |-> <<>>]

ProbeQuoteCalls ==
    { ProbeCall("calculate_v2_swap_output", a) : a \in ProbeQuoteArgs }
    \cup { ProbeCall("flash_calculate_swap_output", a) : a \in ProbeFlashQuoteArgs }

-----------------------------------------------------------------------------
(* The state machine *)

InitState ==
    [gas_price |-> 0, circuit_breaker_triggered |-> FALSE,
     successful_liquidations |-> 0, failed_liquidations |-> 0]

NoProc ==
    [called |-> FALSE, event |-> [form |-> "empty", type |-> "none", target |-> NoTarget],
     circuit_breaker_triggered |-> FALSE, gas_price |-> 0, actions |-> <<>>,
     route |-> "none"]

Chains ==
    [gas : {0},
     transport : {"public", "relay"},
     reserve_config : ReserveConfigs,
     price : {[a \in Assets |-> 1], [a \in Assets |-> BigPrice]},
     account : {[u \in Users |-> [total_debt_eth |-> BigDebt, health_factor |-> HF_ONE - 1]]}]

Init ==
    /\ config \in Configs
    /\ state = InitState
    /\ chain \in Chains
    /\ lastProc = NoProc
    /\ queue = <<>>
    /\ exec = ExecIdle
    /\ streak = 0
    /\ ms = MsIdle
    /\ fl = FlashIdle
    /\ col = ColIdle
    /\ probe = ProbeIdle
    /\ jit = JitIdle
    /\ mon = MonIdle
    /\ met = MetIdle

\* update_state (sync_state): block number, then gas price, then asset prices;
\* an RPC error ends it at that point.
SyncState ==
    /\ \E gas_ok \in BOOLEAN :
           state' = IF gas_ok THEN [state EXCEPT !.gas_price = chain.gas] ELSE state
    /\ state' # state
    /\ UNCHANGED <<config, chain, lastProc, queue, exec, streak, ms, fl, col, probe, jit, mon, met>>

\* Strategy::process_event on one event; the engine runtime forwards the
\* returned actions to the executor.  Events are taken one at a time: the next
\* one is processed when the actions of the previous one have been executed.
ProcessEvent ==
    /\ exec.pc = "idle"
    /\ queue = <<>>
    /\ \E ev \in Events, rpc_ok \in BOOLEAN :
           \E actions \in {process_event(chain, rpc_ok, state, config, ev)} :
               /\ Len(actions) <= MaxQueue
               /\ lastProc' = [called |-> TRUE, event |-> ev,
                               circuit_breaker_triggered |-> state.circuit_breaker_triggered,
                               gas_price |-> state.gas_price,
                               actions |-> actions, route |-> event_route(ev)]
               /\ queue' = actions
    /\ UNCHANGED <<config, state, chain, exec, streak, ms, fl, col, probe, jit, mon, met>>

\* The host writes the public flag state.circuit_breaker_triggered
\* (an operator trip or reset); no code of the strategy writes it.
SetCircuitBreaker ==
    /\ state' = [state EXCEPT !.circuit_breaker_triggered = ~@]
    /\ UNCHANGED <<config, chain, lastProc, queue, exec, streak, ms, fl, col, probe, jit, mon, met>>

\* The node's gas price moves.
ChainGas ==
    /\ \E g \in 0..MaxGas : g # chain.gas /\ chain' = [chain EXCEPT !.gas = g]
    /\ UNCHANGED <<config, state, lastProc, queue, exec, streak, ms, fl, col, probe, jit, mon, met>>

\* Executor::execute(action) is entered.
Execute ==
    /\ exec.pc = "idle"
    /\ queue # <<>>
    /\ LET action == Head(queue)
       IN  exec' = IF action.kind = "ExecuteLiquidation"
                   THEN [ExecIdle EXCEPT !.pc = "get_gas", !.path = action.path]
                   ELSE [ExecIdle EXCEPT !.pc = "done", !.outcome = "no_op", !.result = "Ok"]
    /\ queue' = Tail(queue)
    /\ UNCHANGED <<config, state, chain, lastProc, streak, ms, fl, col, probe, jit, mon, met>>

\* execute_flash_liquidation: client.get_gas_price().await?
ExecGetGasPrice ==
    /\ exec.pc = "get_gas"
    /\ \E rpc_ok \in BOOLEAN :
           exec' = IF rpc_ok
                   THEN [exec EXCEPT !.pc = "gate", !.gas_price = chain.gas]
                   ELSE [exec EXCEPT !.pc = "done", !.outcome = "gas_rpc_error",
                                     !.result = "Err"]
    /\ UNCHANGED <<config, state, chain, lastProc, queue, streak, ms, fl, col, probe, jit, mon, met>>

\* execute_flash_liquidation: the price gate, the request, send_transaction.
ExecSubmit ==
    /\ exec.pc = "gate"
    /\ IF gas_price_too_high(exec.gas_price, exec.path)
       THEN exec' = [exec EXCEPT !.pc = "done", !.outcome = "gas_too_high",
                                 !.result = "Err"]
       ELSE LET tx_request == IF exec.path.use_flashbots
                              THEN build_flashbots_transaction(config.liquidator_contract,
                                                               exec.path)
                              ELSE build_standard_transaction(config.liquidator_contract,
                                                              exec.path)
            IN  \E send_ok \in BOOLEAN :
                    exec' = IF send_ok
                            THEN [exec EXCEPT !.pc = "pending", !.tx = tx_request,
                                              !.channel = send_transaction(chain, tx_request)]
                            ELSE [exec EXCEPT !.pc = "done", !.tx = tx_request,
                                              !.outcome = "send_error", !.result = "Err"]
    /\ UNCHANGED <<config, state, chain, lastProc, queue, streak, ms, fl, col, probe, jit, mon, met>>

\* The node resolves the pending transaction: mined (successful or reverted),
\* dropped from the mempool, or the receipt poll fails.
ChainResolve ==
    /\ exec.pc = "pending"
    /\ exec.receipt = "none"
    /\ \E r \in {"success", "reverted", "dropped", "rpc_error"} :
           exec' = [exec EXCEPT !.receipt = r]
    /\ UNCHANGED <<config, state, chain, lastProc, queue, streak, ms, fl, col, probe, jit, mon, met>>

\* execute_flash_liquidation: pending_tx.await completes.
ExecAwait ==
    /\ exec.pc = "pending"
    /\ exec.receipt # "none"
    /\ exec' = [exec EXCEPT !.pc = "done",
                            !.outcome = receipt_outcome(exec.receipt),
                            !.result = receipt_result(exec.receipt)]
    /\ UNCHANGED <<config, state, chain, lastProc, queue, streak, ms, fl, col, probe, jit, mon, met>>

\* Executor::execute returns to the engine runtime.
ExecReturn ==
    /\ exec.pc = "done"
    /\ exec' = ExecIdle
    /\ streak' = streak_after(streak, exec.outcome)
    /\ UNCHANGED <<config, state, chain, lastProc, queue, ms, fl, col, probe, jit, mon, met>>

Next ==
    \/ SyncState
    \/ ProcessEvent
    \/ SetCircuitBreaker
    \/ ChainGas
    \/ Execute
    \/ ExecGetGasPrice
    \/ ExecSubmit
    \/ ChainResolve
    \/ ExecAwait
    \/ ExecReturn

Spec == Init /\ [][Next]_vars

\* The executor task is scheduled while it can take a step; the node owes nothing.
FairSpec ==
    /\ Spec
    /\ WF_vars(Execute)
    /\ WF_vars(ExecGetGasPrice)
    /\ WF_vars(ExecSubmit)
    /\ WF_vars(ExecAwait)
    /\ WF_vars(ExecReturn)

-----------------------------------------------------------------------------
(* multi-strategy crate: the state machine *)

\* The cache after one full update against the first reserve snapshot, and the
\* estimate of the best WETH cycle over it.
MsSkewed == [pA |-> <<1000, 2000>>, pB |-> <<2000, 2000>>, pC |-> <<1000, 1000>>]

MsSkewedState ==
    update_pool_reserves([token_prices |-> [t \in MsTokens |-> None],
                          pool_reserves |-> [a \in {"pA", "pB", "pC"} |-> None],
                          tracked_txs |-> {}],
                         MsSkewed, MsPoolConfigs, <<1, 2, 3>>, {"pA", "pB"})

MsSkewedProfit ==
    estimate_path_profit(MsSkewedState,
        find_profitable_paths(MsSkewedState, MsPoolAddrs, weth_address).val[1])

\* Configurations: the threshold is the quick filter's floor, the estimate of
\* the cycle above, or out of reach.
MsConfigs ==
    [min_profit_threshold : {MIN_PROFIT_ETH, MsSkewedProfit, 4 * FX},
     enable_arbitrage : BOOLEAN,
     monitored_tokens : {<<"WETH", "DAI">>},
     monitored_pools : {MsPoolConfigs},
     submission_timeout : {MsSubmissionTimeout}]
    \cup [min_profit_threshold : {MIN_PROFIT_ETH},
          enable_arbitrage : {TRUE},
          monitored_tokens : {<<>>},
          monitored_pools : {MsPoolConfigs},
          submission_timeout : {MsSubmissionTimeout}]

\* Completion orders of the futures of update_pool_reserves.  The future of
\* the Curve pool writes nothing, so its place in the order is immaterial.
DoneOrders == {<<1, 2, 3>>, <<2, 1, 3>>}

\* The pools whose update calls the node.
MsRpcPools == {"pA", "pB"}

MsInit ==
    /\ config = CHOOSE c \in Configs : TRUE
    /\ state = InitState
    /\ chain = CHOOSE c \in Chains : TRUE
    /\ lastProc = NoProc
    /\ queue = <<>>
    /\ exec = ExecIdle
    /\ streak = 0
    /\ \E cfg \in MsConfigs, order \in {<<"pA", "pB", "pC">>, <<"pB", "pA", "pC">>},
          node \in MsReserveSnapshots :
           ms = MsConstructed(cfg, order, node)
    /\ fl = FlashIdle
    /\ col = ColIdle
    /\ probe = ProbeIdle
    /\ jit = JitIdle
    /\ mon = MonIdle
    /\ met = MetIdle

\* A trade on the node moves a pool's reserves.
MsNodeTrade ==
    /\ \E node \in MsReserveSnapshots :
           /\ node # ms.node
           /\ ms' = [ms EXCEPT !.node = node]
    /\ UNCHANGED <<liqVars, fl, col, probe, jit, mon, met>>

\* sync_state.
MsSyncState ==
    /\ \E done \in DoneOrders, answered \in SUBSET MsRpcPools :
           ms' = [ms EXCEPT !.state = update_pool_reserves(ms.state, ms.node,
                                          ms.config.monitored_pools, done, answered)]
    /\ ms'.state # ms.state
    /\ UNCHANGED <<liqVars, fl, col, probe, jit, mon, met>>

\* process_event(Event::NewBlock): process_block.
MsProcessBlock ==
    /\ \E done \in DoneOrders, answered \in SUBSET MsRpcPools :
         \E m \in {update_expired_transactions(ms, MaxClock)} :
           IF ~m.config.enable_arbitrage
           THEN ms' = [m EXCEPT !.called = TRUE, !.event = "NewBlock", !.returned = <<>>]
           ELSE \E st \in {update_pool_reserves(m.state, m.node, m.config.monitored_pools,
                                                done, answered)} :
                \E opportunities \in {opportunities_of_tokens(st, m.config, m.hash_order,
                                                              m.config.monitored_tokens)} :
                  /\ m.metrics.arbitrage_opportunities + Len(opportunities) <= MaxMetric
                  /\ ms' = [m EXCEPT !.state = st,
                                     !.metrics.arbitrage_opportunities =
                                         @ + Len(opportunities),
                                     !.called = TRUE,
                                     !.event = "NewBlock",
                                     !.returned = opportunities]
    /\ UNCHANGED <<liqVars, fl, col, probe, jit, mon, met>>

\* process_event(Event::PriceUpdate): update_prices.
MsPriceUpdate ==
    /\ \E token \in MsTokens, price \in {Ratio(1, 1), Ratio(1, 2)} :
           ms' = [ms EXCEPT !.state.token_prices[token] = Some(price),
                            !.called = TRUE, !.event = "PriceUpdate",
                            !.returned = <<>>]
    /\ UNCHANGED <<liqVars, fl, col, probe, jit, mon, met>>

MsNext ==
    \/ MsNodeTrade
    \/ MsSyncState
    \/ MsProcessBlock
    \/ MsPriceUpdate

MsSpec == MsInit /\ [][MsNext]_vars

-----------------------------------------------------------------------------
(* multi-strategy-flash crate: the state machine *)

FlashInit ==
    /\ config = CHOOSE c \in Configs : TRUE
    /\ state = InitState
    /\ chain = CHOOSE c \in Chains : TRUE
    /\ lastProc = NoProc
    /\ queue = <<>>
    /\ exec = ExecIdle
    /\ streak = 0
    /\ ms = MsIdle
    /\ col = ColIdle
    /\ probe = ProbeIdle
    /\ jit = JitIdle
    /\ mon = MonIdle
    /\ met = MetIdle
    /\ \E cfg \in FlashConfigs, order \in {<<"qs", "cv">>, <<"cv", "qs">>},
          node \in FlashReserveSnapshots :
           fl = FlashConstructed(cfg, order, node)

\* process_event leaves the state of the strategy as it is, so every
\* (state, event, result) is reached by behaviours that trade and update
\* first and process one event last; the actions are bounded to those.

\* A trade on the node moves a pool's reserves.
FlashNodeTrade ==
    /\ ~fl.called
    /\ \E node \in FlashReserveSnapshots \cup FlashTriSnapshots :
           /\ DOMAIN node = DOMAIN fl.node
           /\ node # fl.node
           /\ fl' = [fl EXCEPT !.node = node]
    /\ UNCHANGED <<liqVars, ms, col, probe, jit, mon, met>>

\* update_state.
FlashUpdateState ==
    /\ ~fl.called
    /\ \E failed \in {"get_block_number", "get_gas_price", "none"},
          gas_price \in 0..FlashMaxGas, answered \in SUBSET DOMAIN fl.node,
          cv_balances \in BOOLEAN :
           fl' = [fl EXCEPT !.state = update_state(fl.state, fl.config, fl.hash_order,
                                          fl.node, failed, gas_price, answered,
                                          cv_balances)]
    /\ fl'.state # fl.state
    /\ UNCHANGED <<liqVars, ms, col, probe, jit, mon, met>>

\* process_event, and the example's map_action_to_executor_action on the
\* actions it returned.
FlashProcessEvent ==
    /\ ~fl.called
    /\ \E event \in FlashEvents :
         \E actions \in {flash_process_event(fl.state, fl.config, fl.hash_order, event)} :
           fl' = [fl EXCEPT !.called = TRUE,
                            !.event = event,
                            !.returned = actions,
                            !.searched = flash_searched(fl.state, fl.config,
                                                        fl.hash_order, event),
                            !.tx_data = map_action_to_executor_action(actions)]
    /\ UNCHANGED <<liqVars, ms, col, probe, jit, mon, met>>

FlashNext ==
    \/ FlashNodeTrade
    \/ FlashUpdateState
    \/ FlashProcessEvent

FlashSpec == FlashInit /\ [][FlashNext]_vars

\* The strategy configured with three tokens, on a node with a pair for each
\* two of them.
FlashTriInit ==
    /\ config = CHOOSE c \in Configs : TRUE
    /\ state = InitState
    /\ chain = CHOOSE c \in Chains : TRUE
    /\ lastProc = NoProc
    /\ queue = <<>>
    /\ exec = ExecIdle
    /\ streak = 0
    /\ ms = MsIdle
    /\ col = ColIdle
    /\ probe = ProbeIdle
    /\ jit = JitIdle
    /\ mon = MonIdle
    /\ met = MetIdle
    /\ \E cfg \in FlashTriConfigs,
          order \in {<<"qs", "qd", "qw">>, <<"qw", "qd", "qs">>},
          node \in FlashTriSnapshots :
           fl = FlashConstructed(cfg, order, node)

FlashTriSpec == FlashTriInit /\ [][FlashNext]_vars

\* Deployments with a large flash-loan cap (the borrow candidates are
\* 1, 2, .. 10 tokens) or a small one, and three shallow pairs, where the margin of one cycle
\* is of the size of the slippage allowance.  Reserves are
\* <<reserve of token0, reserve of token1>> of the pair.
FlashMarginSnapshots ==
    [qs : {<<670, 1000>>},
     qd : {<<899, 211>>, <<500, 500>>},
     qw : {<<113, 469>>, <<670, 1000>>}]

FlashMarginConfigs ==
    [enabled_strategies : {<<"Arbitrage">>},
     tokens : {FlashTriTokens},
     gas_price_multiplier_pct : {600},
     max_slippage_permille : {5},
     flash_loan_fee_bps : {9},
     arbitrage : [max_path_length : {4},
                  min_profit_threshold : {0},
                  max_flash_loan_amount : {100 * ETH_UNIT, ETH_UNIT \div 2},
                  preferred_flash_loan_provider : {"Aave"}],
     jit_liquidity : [min_fee_expected : {0},
                      preferred_flash_loan_provider : {"Balancer"}],
     mev_share : [backrun_enabled : {FALSE}, min_backrun_profit : {0}]]

FlashMarginInit ==
    /\ config = CHOOSE c \in Configs : TRUE
    /\ state = InitState
    /\ chain = CHOOSE c \in Chains : TRUE
    /\ lastProc = NoProc
    /\ queue = <<>>
    /\ exec = ExecIdle
    /\ streak = 0
    /\ ms = MsIdle
    /\ col = ColIdle
    /\ probe = ProbeIdle
    /\ jit = JitIdle
    /\ mon = MonIdle
    /\ met = MetIdle
    /\ \E cfg \in FlashMarginConfigs,
          order \in {<<"qs", "qd", "qw">>, <<"qw", "qd", "qs">>},
          node \in FlashMarginSnapshots :
           fl = FlashConstructed(cfg, order, node)

\* A trade on the node moves the reserves of a pair.
FlashMarginNodeTrade ==
    /\ ~fl.called
    /\ \E node \in FlashMarginSnapshots :
           /\ node # fl.node
           /\ fl' = [fl EXCEPT !.node = node]
    /\ UNCHANGED <<liqVars, ms, col, probe, jit, mon, met>>

FlashMarginNext ==
    \/ FlashMarginNodeTrade
    \/ FlashUpdateState
    \/ FlashProcessEvent

FlashMarginSpec == FlashMarginInit /\ [][FlashMarginNext]_vars

-----------------------------------------------------------------------------
(* Liquidation collector: the state machine *)

ColInit ==
    /\ config \in { c \in Configs : c.max_gas_price = 1 }
    /\ state = InitState
    /\ chain \in Chains
    /\ lastProc = NoProc
    /\ queue = <<>>
    /\ exec = ExecIdle
    /\ streak = 0
    /\ ms = MsIdle
    /\ fl = FlashIdle
    /\ col = ColIdle
    /\ probe = ProbeIdle
    /\ jit = JitIdle
    /\ mon = MonIdle
    /\ met = MetIdle

\* The node sees a new block.
ColNewBlock ==
    /\ col.block < ColMaxBlock
    /\ col' = [col EXCEPT !.block = @ + 1]
    /\ UNCHANGED <<liqVars, ms, fl, probe, jit, mon, met>>

\* A tick of event_stream: collect_liquidation_events and the match on it.
ColEventTick ==
    /\ col.alive /\ col.ticks < ColMaxTicks
    /\ \E block_ok \in BOOLEAN, logs \in {None, Some(0), Some(2)} :
         \E result \in {collect_liquidation_events(
                             IF block_ok THEN Some(col.block) ELSE None, logs)} :
           col' = IF result.kind = "panic"
                  THEN [col EXCEPT !.alive = FALSE, !.ticks = @ + 1,
                                   !.poll = [block_number |-> Some(col.block),
                                             logs |-> None],
                                   !.last = [tick |-> "event", failed |-> TRUE,
                                             envelope |-> [type |-> "none"]]]
                  ELSE [col EXCEPT !.ticks = @ + 1,
                                   !.poll = [block_number |->
                                                 IF block_ok THEN Some(col.block)
                                                 ELSE None,
                                             logs |-> IF block_ok THEN logs ELSE None],
                                   !.last = tick_item("event", result)]
    /\ UNCHANGED <<liqVars, ms, fl, probe, jit, mon, met>>

\* A tick of health_stream: monitor_user_health_factors and the match on it.
ColHealthTick ==
    /\ col.alive /\ col.ticks < ColMaxTicks
    /\ \E rpc_ok \in BOOLEAN :
           col' = [col EXCEPT
               !.ticks = @ + 1,
               !.last = tick_item("health",
                            [kind |-> "Ok",
                             data |-> monitor_user_health_factors(chain, rpc_ok, config)])]
    /\ UNCHANGED <<liqVars, ms, fl, probe, jit, mon, met>>

ColNext ==
    \/ ColNewBlock
    \/ ColEventTick
    \/ ColHealthTick

ColSpec == ColInit /\ [][ColNext]_vars

-----------------------------------------------------------------------------
(* Single applications of program functions: the state machine *)

ProbeTargetCalls ==
    { ProbeCall("create_liquidation_target", a) : a \in ProbeTargetArgs }
    \cup { ProbeCall("check_liquidation_opportunity", a) :
              a \in { b \in ProbeTargetArgs : b.health_factor_threshold = HF_ONE } }

\* A health tick of the collector whose envelope is handed to the strategy:
\* the chain, the configuration and the circuit breaker at that time.
ProbeTickArgs ==
    [chain : Chains, config : { c \in Configs : c.max_gas_price = 1 },
     circuit_breaker_triggered : BOOLEAN, rpc_ok : BOOLEAN]

ProbeTickCalls == { ProbeCall("monitor_user_health_factors", a) : a \in ProbeTickArgs }

\* Two update_state calls in succession against one node: the strategy as
\* constructed, or after an earlier update against the node `earlier`.
ProbeSyncArgs ==
    [config : FlashConfigs, hash_order : {<<"qs", "cv">>, <<"cv", "qs">>},
     node : FlashReserveSnapshots, earlier : FlashReserveSnapshots \cup {<<>>},
     gas_price : {1}]

ProbeSyncCalls == { ProbeCall("update_state", a) : a \in ProbeSyncArgs }

\* One event handed to the multi-strategy crate after sync_state cached the
\* node's reserves: a block, or an MEV-Share event (a pending transaction sent
\* to `to`, or an event without a transaction).
ProbeMsEvents ==
    [kind : {"NewBlock"}, variant : {"none"}, to : {None}, hash : {"none"}]
    \cup [kind : {"MevShareEvent"}, variant : {"Transaction"},
          to : {None, Some("pA"), Some("pB"), Some("pC"), Some("router")}, hash : {"h1"}]
    \cup [kind : {"MevShareEvent"}, variant : {"Bundle"}, to : {None}, hash : {"none"}]

ProbeMsArgs ==
    [config : [min_profit_threshold : {MIN_PROFIT_ETH},
               enable_arbitrage : BOOLEAN, enable_backrunning : BOOLEAN,
               monitored_tokens : {<<"WETH", "DAI">>},
               monitored_pools : {MsPoolConfigs}],
     hash_order : {<<"pA", "pB", "pC">>},
     node : MsReserveSnapshots,
     event : ProbeMsEvents]

ProbeMsCalls == { ProbeCall("ms_process_event", a) : a \in ProbeMsArgs }

\* MultiStrategy::new on each configuration a deployment may pass.
ProbeMsNewCalls ==
    { ProbeCall("MultiStrategy::new", a) :
        a \in [config : MsConfigs,
               hash_order : {<<"pA", "pB", "pC">>, <<"pB", "pA", "pC">>},
               node : MsReserveSnapshots] }

\* The expiry step of process_block on a strategy whose host tracks up to two
\* submitted transactions (one entry per hash), read at clock `now`.
ProbeTracked ==
    { t \in SUBSET ([tx_hash : {"h1"}, sent_at : 0..MaxClock]
                    \cup [tx_hash : {"h2"}, sent_at : {1, MaxClock}]) :
        \A x, y \in t : x.tx_hash = y.tx_hash => x = y }

ProbeExpiryCalls ==
    { ProbeCall("update_expired_transactions", a) :
        a \in [config : { c \in MsConfigs : c.min_profit_threshold = MIN_PROFIT_ETH
                                             /\ c.enable_arbitrage },
               submission_timeout : 0..MsSubmissionTimeout,
               node : {MsQuiet},
               tracked_txs : ProbeTracked,
               failed_txs : {0, 2},
               now : 0..MaxClock] }

ProbeCalls ==
    ProbeQuoteCalls \cup ProbeTargetCalls \cup ProbeTickCalls \cup ProbeSyncCalls
    \cup ProbeMsCalls \cup ProbeMsNewCalls \cup ProbeExpiryCalls

ProbeInit ==
    /\ config = CHOOSE c \in Configs : TRUE
    /\ state = InitState
    /\ chain = CHOOSE c \in Chains : TRUE
    /\ lastProc = NoProc
    /\ queue = <<>>
    /\ exec = ExecIdle
    /\ streak = 0
    /\ ms = MsIdle
    /\ fl = FlashIdle
    /\ col = ColIdle
    /\ probe \in ProbeCalls
    /\ jit = JitIdle
    /\ mon = MonIdle
    /\ met = MetIdle

\* calculate_v2_swap_output of the multi-strategy crate.
ProbeV2SwapOutput ==
    /\ probe.fn = "calculate_v2_swap_output" /\ ~probe.done
    /\ probe' = [probe EXCEPT
           !.done = TRUE,
           !.out = calculate_v2_swap_output(
                       [reserve0 |-> probe.args.reserve0, reserve1 |-> probe.args.reserve1,
                        token0 |-> "WETH", token1 |-> "DAI", pool_type |-> "UniswapV2"],
                       IF probe.args.zero_for_one THEN "WETH" ELSE "DAI",
                       probe.args.amount_in, probe.args.zero_for_one)]
    /\ UNCHANGED <<liqVars, ms, fl, col, jit, mon, met>>

\* calculate_swap_output of the multi-strategy-flash crate on a Uniswap V2 pool.
ProbeFlashSwapOutput ==
    /\ probe.fn = "flash_calculate_swap_output" /\ ~probe.done
    /\ probe' = [probe EXCEPT
           !.done = TRUE,
           !.out = flash_calculate_swap_output(
                       [reserve0 |-> probe.args.reserve0, reserve1 |-> probe.args.reserve1,
                        token0 |-> "WMATIC", token1 |-> "USDC", dex_type |-> "UniswapV2"],
                       IF probe.args.zero_for_one THEN "WMATIC" ELSE "USDC",
                       probe.args.amount_in, probe.args.zero_for_one)]
    /\ UNCHANGED <<liqVars, ms, fl, col, jit, mon, met>>

\* create_liquidation_target of the liquidation strategy for user u1.
ProbeCreateLiquidationTarget ==
    /\ probe.fn = "create_liquidation_target" /\ ~probe.done
    /\ probe' = [probe EXCEPT
           !.done = TRUE,
           !.out = create_liquidation_target(
                       <<ProbeChain(probe.args.hf1, probe.args.debt_early),
                         ProbeChain(probe.args.hf2, probe.args.debt_early),
                         ProbeChain(probe.args.hf2, probe.args.debt_early),
                         ProbeChain(probe.args.hf2, probe.args.debt)>>,
                       probe.args.rpc_ok, InitState, ProbeConfig(probe.args),
                       "u1", "USDC")]
    /\ UNCHANGED <<liqVars, ms, fl, col, jit, mon, met>>

\* check_liquidation_opportunity of the collector for user u1.
ProbeCheckLiquidationOpportunity ==
    /\ probe.fn = "check_liquidation_opportunity" /\ ~probe.done
    /\ probe' = [probe EXCEPT
           !.done = TRUE,
           !.out = check_liquidation_opportunity(
                       <<ProbeChain(probe.args.hf1, probe.args.debt_early),
                         ProbeChain(probe.args.hf2, probe.args.debt)>>,
                       probe.args.rpc_ok, ProbeConfig(probe.args), "u1", "USDC")]
    /\ UNCHANGED <<liqVars, ms, fl, col, jit, mon, met>>

\* monitor_user_health_factors of the collector, and process_event of the
\* strategy on the envelope it returned.
ProbeHealthTickDelivered ==
    /\ probe.fn = "monitor_user_health_factors" /\ ~probe.done
    /\ \E envelope \in {monitor_user_health_factors(probe.args.chain, probe.args.rpc_ok,
                                                     probe.args.config)} :
           probe' = [probe EXCEPT
               !.done = TRUE,
               !.out = [envelope |-> envelope,
                        actions |-> process_event(
                            probe.args.chain, probe.args.rpc_ok,
                            [InitState EXCEPT !.circuit_breaker_triggered =
                                                  probe.args.circuit_breaker_triggered],
                            probe.args.config, event_of_json(envelope))]]
    /\ UNCHANGED <<liqVars, ms, fl, col, jit, mon, met>>

\* update_state of the multi-strategy-flash crate, called twice with every
\* call answered and the node unchanged in between.
ProbeUpdateStateTwice ==
    /\ probe.fn = "update_state" /\ ~probe.done
    /\ LET a == probe.args
           constructed == FlashConstructed(a.config, a.hash_order, a.node).state
           start == IF a.earlier = <<>> THEN constructed
                    ELSE update_state(constructed, a.config, a.hash_order, a.earlier,
                                      "none", a.gas_price, DOMAIN a.earlier, TRUE)
           first == update_state(start, a.config, a.hash_order, a.node, "none",
                                 a.gas_price, DOMAIN a.node, TRUE)
           second == update_state(first, a.config, a.hash_order, a.node, "none",
                                  a.gas_price, DOMAIN a.node, TRUE)
       IN  probe' = [probe EXCEPT !.done = TRUE, !.out = <<first, second>>]
    /\ UNCHANGED <<liqVars, ms, fl, col, jit, mon, met>>

\* The state of the multi-strategy crate after sync_state against `node`.
ProbeMsSynced(a) ==
    update_pool_reserves(MsConstructed(a.config, a.hash_order, a.node).state, a.node,
                         a.config.monitored_pools, <<1, 2, 3>>, MsRpcPools)

\* process_event of the multi-strategy crate on a block or an MEV-Share event.
ProbeMsProcessEvent ==
    /\ probe.fn = "ms_process_event" /\ ~probe.done
    /\ \E st \in {ProbeMsSynced(probe.args)} :
           probe' = [probe EXCEPT
               !.done = TRUE,
               !.out = IF probe.args.event.kind = "NewBlock"
                       THEN process_block(st, probe.args.config, probe.args.hash_order,
                                          probe.args.node, <<1, 2, 3>>, MsRpcPools)
                       ELSE process_mev_share(st, probe.args.config,
                                              probe.args.hash_order, probe.args.event)]
    /\ UNCHANGED <<liqVars, ms, fl, col, jit, mon, met>>

\* MultiStrategy::new.
ProbeMsNew ==
    /\ probe.fn = "MultiStrategy::new" /\ ~probe.done
    /\ probe' = [probe EXCEPT
           !.done = TRUE,
           !.out = MsConstructed(probe.args.config, probe.args.hash_order,
                                 probe.args.node)]
    /\ UNCHANGED <<liqVars, ms, fl, col, jit, mon, met>>

\* The strategy the expiry step runs on: constructed, reserves cached by
\* sync_state, a price received, and the host's tracked transactions.
ProbeMsTracking(a) ==
    [MsConstructed([a.config EXCEPT !.submission_timeout = a.submission_timeout],
                   <<"pA", "pB", "pC">>, a.node)
        EXCEPT !.state = [update_pool_reserves(@, a.node, a.config.monitored_pools,
                                               <<1, 2, 3>>, MsRpcPools)
                             EXCEPT !.token_prices["DAI"] = Some(Ratio(1, 2)),
                                    !.tracked_txs = a.tracked_txs],
               !.metrics.failed_txs = a.failed_txs,
               !.metrics.arbitrage_opportunities = 1]

\* update_expired_transactions, the first step of process_block.
ProbeUpdateExpired ==
    /\ probe.fn = "update_expired_transactions" /\ ~probe.done
    /\ probe' = [probe EXCEPT
           !.done = TRUE,
           !.out = update_expired_transactions(ProbeMsTracking(probe.args),
                                               probe.args.now)]
    /\ UNCHANGED <<liqVars, ms, fl, col, jit, mon, met>>

ProbeNext ==
    \/ ProbeUpdateExpired
    \/ ProbeMsNew
    \/ ProbeMsProcessEvent
    \/ ProbeUpdateStateTwice
    \/ ProbeHealthTickDelivered
    \/ ProbeV2SwapOutput
    \/ ProbeFlashSwapOutput
    \/ ProbeCreateLiquidationTarget
    \/ ProbeCheckLiquidationOpportunity

ProbeSpec == ProbeInit /\ [][ProbeNext]_vars

-----------------------------------------------------------------------------
(* polygon-jit-strategy: the state machine *)

JitInit ==
    /\ config = CHOOSE c \in Configs : TRUE
    /\ state = InitState
    /\ chain = CHOOSE c \in Chains : TRUE
    /\ lastProc = NoProc
    /\ queue = <<>>
    /\ exec = ExecIdle
    /\ streak = 0
    /\ ms = MsIdle
    /\ fl = FlashIdle
    /\ col = ColIdle
    /\ probe = ProbeIdle
    /\ \E args \in JitArgs : jit = [JitIdle EXCEPT !.args = args]
    /\ mon = MonIdle
    /\ met = MetIdle

\* monitor_mempool: sender.send(opportunity).await, which waits while the
\* channel is full. The monitor of this build sends JitLiquidity (and
\* BatchMicroJit in simulation mode); the receiver is checked for every
\* OpportunityType.
JitMonitorSend ==
    /\ jit.produced < JitMaxOpportunities
    /\ Len(jit.channel) < JitChannelCapacity
    /\ \E t \in OpportunityTypes :
           jit' = [jit EXCEPT !.channel = Append(@, t), !.produced = @ + 1]
    /\ UNCHANGED <<liqVars, ms, fl, col, probe, mon, met>>

\* main: rx.recv().await and the simulation gate.
JitRecv ==
    /\ jit.pc = "recv"
    /\ jit.channel # <<>>
    /\ LET taken == [jit EXCEPT !.channel = Tail(@), !.opportunity = Head(jit.channel),
                                !.attempts = 0, !.balance = None]
       IN  jit' = IF simulation_mode(jit.args)
                  THEN jit_returned(taken, "simulated")
                  ELSE [taken EXCEPT !.pc = "balance"]
    /\ UNCHANGED <<liqVars, ms, fl, col, probe, mon, met>>

\* main: get_balance, the 0.1 MATIC gate, the match on the opportunity's type
\* and the called execute_* function up to its call.send().
JitBalance ==
    /\ jit.pc = "balance"
    /\ \E balance \in {None} \cup { Some(b) : b \in 0..JitMaxBalance } :
           LET read == [jit EXCEPT !.balance = balance]
           IN  jit' = IF ~balance.some THEN jit_returned(read, "balance_error")
                      ELSE IF balance.val < JitMinBalance
                      THEN jit_returned(read, "insufficient_balance")
                      ELSE LET executor == jit_dispatch(jit.args, jit.opportunity)
                           IN  IF executor = "none"
                               THEN jit_returned(read, jit_skipped(jit.opportunity))
                               ELSE IF simulation_mode(jit.args)
                               THEN jit_returned(read, "simulated")
                               ELSE [read EXCEPT !.pc = "send", !.executor = executor]
    /\ UNCHANGED <<liqVars, ms, fl, col, probe, mon, met>>

\* execute_*: call.send().await.
JitSend ==
    /\ jit.pc = "send"
    /\ \E result \in {"Ok", "transfer amount exceeds balance", "Err"} :
           LET sent == [jit EXCEPT !.attempts = @ + 1, !.submitted = @ + 1,
                                   !.pending = IF result = "Ok" THEN @ + 1 ELSE @]
               pc == jit_after_send(result)
           IN  jit' = IF pc = "recv" THEN jit_returned(sent, jit_send_outcome(result))
                      ELSE [sent EXCEPT !.pc = pc]
    /\ UNCHANGED <<liqVars, ms, fl, col, probe, mon, met>>

\* execute_*: pending_tx.await? completes and the function returns.
JitReceipt ==
    /\ jit.pc = "receipt"
    /\ \E receipt \in {"mined", "dropped", "Err"} :
           jit' = jit_returned([jit EXCEPT !.pending = @ - 1],
                               IF receipt = "Err" THEN "receipt_error" ELSE receipt)
    /\ UNCHANGED <<liqVars, ms, fl, col, probe, mon, met>>

JitNext ==
    \/ JitMonitorSend
    \/ JitRecv
    \/ JitBalance
    \/ JitSend
    \/ JitReceipt

JitSpec == JitInit /\ [][JitNext]_vars

-----------------------------------------------------------------------------
(* polygon-jit-strategy: the mempool monitor as a state machine *)

MonVars == <<config, state, chain, lastProc, queue, exec, streak, ms, fl, col, probe, jit, met>>

MonInit ==
    /\ config = CHOOSE c \in Configs : TRUE
    /\ state = InitState
    /\ chain = CHOOSE c \in Chains : TRUE
    /\ lastProc = NoProc
    /\ queue = <<>>
    /\ exec = ExecIdle
    /\ streak = 0
    /\ ms = MsIdle
    /\ fl = FlashIdle
    /\ col = ColIdle
    /\ probe = ProbeIdle
    /\ jit = JitIdle
    /\ \E c \in MonChains, sim \in BOOLEAN :
          mon = [MonIdle EXCEPT !.chain = c, !.simulation_mode = sim]
    /\ met = MetIdle

\* The node learns of the next block.
MonNewBlock ==
    /\ mon.head < Len(mon.chain)
    /\ mon' = [mon EXCEPT !.head = @ + 1]
    /\ UNCHANGED MonVars

\* One iteration of the monitor loop: get_block_number, get_block_with_txs
\* of the latest block, the scan of its transactions, then the select!
\* between the heartbeat tick and the one-second sleep.
MonPoll ==
    /\ \E number_ok \in BOOLEAN, block_ok \in BOOLEAN, tick \in BOOLEAN, sample_ok \in BOOLEAN :
          LET scanned == IF number_ok /\ block_ok
                         THEN scan_block_txs(mon.chain[mon.head], mon.seen_txs, mon.sent)
                         ELSE [seen_txs |-> mon.seen_txs, sent |-> mon.sent]
              sent == scanned.sent \o heartbeat_sample(mon, tick, sample_ok)
          IN  /\ Len(sent) <= MonMaxSent
              /\ mon' = [mon EXCEPT !.seen_txs = scanned.seen_txs, !.sent = sent,
                                    !.polled = TRUE]
    /\ UNCHANGED MonVars

MonNext ==
    \/ MonNewBlock
    \/ MonPoll

MonSpec == MonInit /\ [][MonNext]_vars

-----------------------------------------------------------------------------
(* polygon-jit-strategy: callers of Metrics.record_opportunity *)

MetVars == <<config, state, chain, lastProc, queue, exec, streak, ms, fl, col, probe, jit, mon>>

MetInit ==
    /\ config = CHOOSE c \in Configs : TRUE
    /\ state = InitState
    /\ chain = CHOOSE c \in Chains : TRUE
    /\ lastProc = NoProc
    /\ queue = <<>>
    /\ exec = ExecIdle
    /\ streak = 0
    /\ ms = MsIdle
    /\ fl = FlashIdle
    /\ col = ColIdle
    /\ probe = ProbeIdle
    /\ jit = JitIdle
    /\ mon = MonIdle
    /\ met = MetIdle

\* A task enters record_opportunity: the atomic counters are bumped.
MetRecordCall(t) ==
    /\ met.pc[t] = "idle"
    /\ met.calls < MetMaxCalls
    /\ met' = [met EXCEPT !.pc[t] = "counted", !.arg[t] = met.calls + 1,
                          !.calls = @ + 1, !.opportunities_detected = @ + 1]
    /\ UNCHANGED MetVars

\* self.recent_opportunities.lock().unwrap()
MetRecordLock(t) ==
    /\ met.pc[t] = "counted"
    /\ met.holder = "none"
    /\ met' = [met EXCEPT !.pc[t] = "locked", !.holder = t]
    /\ UNCHANGED MetVars

\* recent.push((Instant::now(), opportunity.clone()))
MetRecordPush(t) ==
    /\ met.pc[t] = "locked"
    /\ met' = [met EXCEPT !.pc[t] = "pushed", !.recent = Append(@, met.arg[t]),
                          !.recorded = Append(@, met.arg[t])]
    /\ UNCHANGED MetVars

\* The length check, the eviction, and the guard going out of scope.
MetRecordEvict(t) ==
    /\ met.pc[t] = "pushed"
    /\ met' = [met EXCEPT !.pc[t] = "idle", !.recent = evict_oldest(@), !.holder = "none"]
    /\ UNCHANGED MetVars

MetNext ==
    \/ \E t \in MetTasks : MetRecordCall(t)
    \/ \E t \in MetTasks : MetRecordLock(t)
    \/ \E t \in MetTasks : MetRecordPush(t)
    \/ \E t \in MetTasks : MetRecordEvict(t)

MetSpec == MetInit /\ [][MetNext]_vars


-----------------------------------------------------------------------------
(* Properties: liquidation strategy and executor *)

IsExecute(action) ==
    action.kind \in {"ExecuteLiquidation", "ExecuteArbitrage", "ExecuteJitLiquidity",
                     "ExecuteBackrun"}

EmitsExecute(actions) == \E i \in 1..Len(actions) : IsExecute(actions[i])

\* C1: while state.circuit_breaker_triggered is true, process_event returns no
\* Execute* action, whatever the event (block, liquidation_opportunity, empty
\* or malformed bytes).
C1_NoExecuteWhileTripped ==
    (lastProc.called /\ lastProc.circuit_breaker_triggered)
        => ~EmitsExecute(lastProc.actions)

C4_PriceGate ==
    (exec.pc \in {"pending", "done"} /\ exec.outcome \notin {"gas_rpc_error", "no_op"})
        => /\ exec.gas_price > exec.path.max_gas_price
                 => /\ exec.result = "Err"
                    /\ exec.outcome = "gas_too_high"
                    /\ exec.tx = NoTx
                    /\ exec.channel = "none"
           /\ exec.gas_price <= exec.path.max_gas_price
                 => /\ exec.outcome # "gas_too_high"
                    /\ exec.tx # NoTx
                    /\ exec.pc = "pending" \/ exec.outcome # "none"

C4_Witness ==
    /\ exec.pc = "done"
    /\ exec.outcome = "gas_too_high"
    /\ exec.gas_price > exec.path.max_gas_price

\* C5: execute(ExecuteLiquidation) returns Ok only when the transaction was
\* mined with a successful status.
C5_OkOnlyOnMinedSuccess ==
    (exec.pc = "done" /\ exec.outcome # "no_op" /\ exec.result = "Ok")
        => exec.outcome = "mined_success"

\* C6: every submitted transaction eventually reaches a terminal state; one
\* that is never mined is reported as expired and not awaited forever.
C6_SubmissionTerminates == (exec.pc = "pending") ~> (exec.pc = "done")

\* C7: once the number of consecutive failed submissions reaches the
\* failure-streak threshold, the circuit-breaker flag becomes set.
C7_StreakTripsBreaker ==
    (streak >= FailureStreakThreshold) ~> state.circuit_breaker_triggered

\* C8: a path with use_flashbots = TRUE is sent through the private relay and
\* never to the public mempool; a path with use_flashbots = FALSE is broadcast
\* to the public mempool.
C8_PrivateIffFlashbots ==
    (exec.channel # "none")
        => (exec.channel = "relay" <=> exec.path.use_flashbots)

\* C9: every built transaction is addressed to the liquidator contract, has
\* gas limit 500000 (standard) or 600000 (protected), and gas price
\* min(currentGasPrice * priorityMultiplier, maxGasPrice).
C9_BuiltTransaction ==
    (exec.tx # NoTx)
        => /\ exec.tx.to = config.liquidator_contract
           /\ exec.tx.gas = IF exec.path.use_flashbots THEN 600000 ELSE 500000
           /\ \E m \in 1..MaxPriorityMultiplier :
                  exec.tx.gas_price = Min(exec.gas_price * m, exec.path.max_gas_price)

-----------------------------------------------------------------------------
(* Properties: multi-strategy crate *)

\* C3: every emitted action carries an expected profit strictly greater than
\* the configured minimum profit threshold; a plan whose profit equals the
\* threshold is not emitted.
C3_ProfitAboveThreshold ==
    \A i \in 1..Len(ms.returned) :
        ms.returned[i].expected_profit > ms.config.min_profit_threshold

\* The ExecuteArbitrage actions returned by the flash strategy's last
\* process_event.
FlashEmittedPaths ==
    { fl.returned[i].path : i \in { k \in 1..Len(fl.returned) :
                                        fl.returned[k].kind = "ExecuteArbitrage" } }

\* C10: every emitted ArbitragePath is a cycle on its start token: the first
\* leg spends the start token, each leg spends what the leg before it bought,
\* the last leg buys the start token back, and no pool is used twice.
C10_EmittedPathIsCycle ==
    \A path \in FlashEmittedPaths :
        /\ path.swaps # <<>>
        /\ path.swaps[1].token_in = path.start_token
        /\ \A i \in 1..(Len(path.swaps) - 1) :
               path.swaps[i].token_out = path.swaps[i + 1].token_in
        /\ path.swaps[Len(path.swaps)].token_out = path.start_token
        /\ \A i, j \in 1..Len(path.swaps) :
               i # j => path.swaps[i].pool_address # path.swaps[j].pool_address

-----------------------------------------------------------------------------
(* Properties: path search of the multi-strategy-flash crate *)

\* The legs of a dequeued cycle: its entries after the start entry.
FlashLegs(cycle) == Len(cycle) - 1

\* A closed walk of n legs over n distinct loaded pools, from start back to
\* start, exists in the pool graph of st.
FlashCycleExists(st, start, n) ==
    \E pools \in [1..n -> { a \in DOMAIN st.pools : st.pools[a].some }],
       toks \in [1..(n + 1) -> {"WMATIC", "USDC", "DAI"}] :
        /\ \A i, j \in 1..n : i # j => pools[i] # pools[j]
        /\ toks[1] = start /\ toks[n + 1] = start
        /\ \A i \in 1..n :
               {toks[i], toks[i + 1]} = {st.pools[pools[i]].val.token0,
                                         st.pools[pools[i]].val.token1}
               /\ toks[i] # toks[i + 1]

\* C11: the path search never dequeues a cycle of more than max_path_length
\* legs, and for every start token it searches from, when the loaded pools
\* hold a cycle of exactly max_path_length legs through that token, it
\* dequeues a cycle of exactly that many legs.
C11_CyclesUpToMaxPathLength ==
    fl.called =>
        \A k \in 1..Len(fl.searched) :
            /\ \A c \in 1..Len(fl.searched[k][2]) :
                   FlashLegs(fl.searched[k][2][c]) <= fl.config.arbitrage.max_path_length
            /\ FlashCycleExists(fl.state, fl.searched[k][1],
                                fl.config.arbitrage.max_path_length)
                   => \E c \in 1..Len(fl.searched[k][2]) :
                          FlashLegs(fl.searched[k][2][c])
                              = fl.config.arbitrage.max_path_length

-----------------------------------------------------------------------------
(* Properties: swap quotes *)

ProbeIsQuote == probe.fn \in {"calculate_v2_swap_output", "flash_calculate_swap_output"}

ProbeReserveIn ==
    IF probe.args.zero_for_one THEN probe.args.reserve0 ELSE probe.args.reserve1

ProbeReserveOut ==
    IF probe.args.zero_for_one THEN probe.args.reserve1 ELSE probe.args.reserve0

ProbeQuoted ==
    /\ ProbeIsQuote /\ probe.done
    /\ ProbeReserveIn > 0 /\ ProbeReserveOut > 0
    /\ probe.args.amount_in <= ProbeReserveIn

\* C12 as stated: for positive reserves and every input amount
\* 0 < amountIn <= rIn the quote satisfies 0 < amountOut < rOut.
C12_QuoteStrictlyPositive ==
    ProbeQuoted /\ probe.args.amount_in > 0
        => 0 < probe.out[1] /\ probe.out[1] < ProbeReserveOut

\* C12: for positive reserves and amountIn <= rIn the quote satisfies
\* 0 <= amountOut < rOut, and it is positive exactly when
\* amountIn * 997 * rOut >= rIn * 1000 + amountIn * 997.
C12_QuoteBelowReserveOut ==
    ProbeQuoted =>
        /\ 0 <= probe.out[1] /\ probe.out[1] < ProbeReserveOut
        /\ probe.out[1] > 0
               <=> probe.args.amount_in * 997 * ProbeReserveOut
                       >= ProbeReserveIn * 1000 + probe.args.amount_in * 997

C12_Witness ==
    /\ ProbeQuoted /\ probe.fn = "calculate_v2_swap_output"
    /\ probe.args.amount_in > 0 /\ probe.out[1] > 0

-----------------------------------------------------------------------------
(* Properties: multi-strategy block scan *)

\* The reserve a swap pays into, as cached when the path was emitted.
MsReserveIn(swap) ==
    IF swap.zero_for_one THEN ms.state.pool_reserves[swap.pool].val.reserve0
    ELSE ms.state.pool_reserves[swap.pool].val.reserve1

\* C13: no leg of an emitted ArbitragePath swaps into a pool whose
\* input-side reserve is 0.
C13_NoLegIntoEmptyReserve ==
    \A i \in 1..Len(ms.returned) :
        \A k \in 1..Len(ms.returned[i].path.swaps) :
            MsReserveIn(ms.returned[i].path.swaps[k]) > 0

-----------------------------------------------------------------------------
(* Properties: liquidation targets *)

ProbeBuiltTarget ==
    /\ probe.fn \in {"create_liquidation_target", "check_liquidation_opportunity"}
    /\ probe.done
    /\ probe.out.some

\* C14: a LiquidationTarget built by the strategy or by the collector has
\* debt_to_cover <= totalDebt * 5000 / 10000, for the total debt read for it,
\* and debt_to_cover <= config.max_liquidation_amount.
C14_DebtToCoverCapped ==
    ProbeBuiltTarget =>
        /\ probe.out.val.debt_to_cover <= (probe.args.debt * 5000) \div 10000
        /\ probe.out.val.debt_to_cover <= probe.args.max_liquidation_amount

C14_Witness ==
    /\ ProbeBuiltTarget /\ probe.fn = "create_liquidation_target"
    /\ probe.args.debt = 10 /\ probe.args.max_liquidation_amount = 15
    /\ probe.out.val.debt_to_cover = 5

\* C15: the health_factor recorded in a built LiquidationTarget is below
\* 1e18, whatever the health factor does between the reads and whatever
\* health_factor_threshold is configured.
C15_RecordedHealthFactorBelowOne ==
    ProbeBuiltTarget => probe.out.val.health_factor < HF_ONE

-----------------------------------------------------------------------------
(* Properties: event envelopes *)

\* C16: process_event returns no action for an envelope of type error,
\* liquidation_events, health_check or an unknown type, in every strategy
\* state.
C16_NoActionForPassiveEnvelopes ==
    /\ lastProc.called /\ lastProc.event.form = "json"
           /\ lastProc.event.type \in {"error", "liquidation_events", "health_check",
                                       "mev_hint"}
           => lastProc.actions = <<>>
    /\ fl.called /\ fl.event.json
           /\ fl.event.type \in {"error", "liquidation_events", "health_check", "unknown"}
           => fl.returned = <<>>

-----------------------------------------------------------------------------
(* Properties: actions of one block event *)

\* The actions of one kind in a returned list.
CountKind(actions, kind) ==
    Cardinality({ i \in 1..Len(actions) : actions[i].kind = kind })

\* C17: on a block event each scan contributes at most one action to the
\* returned list.
C17_OneActionPerScan ==
    /\ ms.called => CountKind(ms.returned, "ExecuteArbitrage") <= 1
    /\ fl.called =>
           /\ CountKind(fl.returned, "ExecuteArbitrage") <= 1
           /\ CountKind(fl.returned, "ExecuteJitLiquidity") <= 1

\* The place of an action kind in the fixed order of the scans.
ScanRank(kind) ==
    CASE kind = "ExecuteLiquidation" -> 1
      [] kind = "ExecuteArbitrage" -> 2
      [] kind = "ExecuteJitLiquidity" -> 3
      [] OTHER -> 4

\* C18: the actions returned for one block event are ordered liquidation,
\* then arbitrage, then JIT, whatever the order of enabled_strategies.
C18_FixedScanOrder ==
    fl.called =>
        \A i, j \in 1..Len(fl.returned) :
            i < j => ScanRank(fl.returned[i].kind) <= ScanRank(fl.returned[j].kind)

-----------------------------------------------------------------------------
(* Properties: from the health tick to the liquidation *)

\* The target the collector builds for u1 on the chain of the tick, when u1
\* is under-collateralized there.
ProbeTickTarget ==
    check_liquidation_opportunity(<<probe.args.chain, probe.args.chain>>, TRUE,
                                  probe.args.config, "u1", "USDC")

\* u1 is under-collateralized, the node answers, the circuit breaker is clear
\* and the liquidation of u1 is profitable for the strategy.
ProbeTickLiquidatable ==
    /\ probe.fn = "monitor_user_health_factors" /\ probe.done
    /\ probe.args.rpc_ok /\ ~probe.args.circuit_breaker_triggered
    /\ probe.args.chain.account["u1"].health_factor < HF_ONE
    /\ ProbeTickTarget.some
    /\ process_liquidation_opportunity(
           probe.args.chain, TRUE, InitState, probe.args.config,
           [form |-> "json", type |-> "liquidation_opportunity",
            target |-> ProbeTickTarget.val]) # <<>>

\* C19: the health tick emits a liquidation_opportunity envelope for an
\* under-collateralized user, and that envelope, delivered to the strategy
\* while the liquidation is profitable and the circuit breaker is clear,
\* results in an ExecuteLiquidation action for that user.
C19_HealthTickLeadsToLiquidation ==
    ProbeTickLiquidatable =>
        /\ probe.out.envelope.type = "liquidation_opportunity"
        /\ \E i \in 1..Len(probe.out.actions) :
               /\ probe.out.actions[i].kind = "ExecuteLiquidation"
               /\ probe.out.actions[i].path.target.user = "u1"

-----------------------------------------------------------------------------
(* Properties: collector stream *)

\* C20: a failed poll yields an error envelope for its tick, and no polling
\* outcome panics or ends the stream.
C20_PollingNeverEndsStream ==
    /\ col.alive
    /\ col.last.failed => col.last.envelope.type = "error"

-----------------------------------------------------------------------------
(* Properties: block envelopes, the JIT bot, synchronisation, gating, calldata *)

\* The last tick was an event tick whose two calls were answered.
ColPolled ==
    /\ col.last.tick = "event" /\ col.alive
    /\ col.poll.block_number.some /\ col.poll.logs.some

\* C21: an event tick whose log query over H-10..H was answered emits one
\* envelope: liquidation_events with the log count and H when the query
\* returned logs, block with H otherwise.
C21_BlockTickEnvelope ==
    ColPolled =>
        IF col.poll.logs.val # 0
        THEN col.last.envelope = [type |-> "liquidation_events",
                                  events |-> col.poll.logs.val,
                                  block |-> col.poll.block_number.val]
        ELSE col.last.envelope = [type |-> "block",
                                  block_number |-> col.poll.block_number.val]

C21_Witness ==
    /\ ColPolled /\ col.poll.logs.val = 2
    /\ col.last.envelope.type = "liquidation_events" /\ col.last.envelope.block = 10

\* C24: with --simulation no transaction is ever sent, whatever opportunities
\* arrive.
C24_SimulationSendsNothing ==
    jit.args.simulation => jit.submitted = 0 /\ jit.pending = 0 /\ jit.pc = "recv"

C24_Witness ==
    /\ jit.args.simulation /\ jit.args.enable_jit /\ jit.args.enable_arb
    /\ jit.handled = 3 /\ jit.last = "simulated" /\ jit.submitted = 0

\* C26: for one opportunity handed to an executor send() is called at most
\* once; a send that fails is not repeated.
C26_AtMostOneSubmission == jit.attempts <= 1

C26_Witness ==
    /\ jit.handled >= 1 /\ jit.last = "send_error" /\ jit.attempts = 1
    /\ jit.pc = "recv"

\* C27: at most one submitted transaction awaits its receipt, the main loop
\* stays in the execute_* call while it does, and no opportunity leaves the
\* channel before the handling of the previous one has returned.
C27_OnePendingReceipt ==
    /\ jit.pending <= 1
    /\ jit.pending = 1 <=> jit.pc = "receipt"
    /\ Len(jit.channel) <= JitChannelCapacity
    /\ jit.produced = jit.handled + Len(jit.channel) + (IF jit.pc = "recv" THEN 0 ELSE 1)

C27_Witness ==
    /\ jit.pending = 1 /\ jit.pc = "receipt"
    /\ Len(jit.channel) = JitChannelCapacity /\ jit.produced = JitMaxOpportunities

\* C22: after two update_state calls in succession against an unchanged chain
\* the pool map and the token-price map are those after the first call.
C22_SyncIdempotent ==
    (probe.fn = "update_state" /\ probe.done)
        => /\ probe.out[2].pools = probe.out[1].pools
           /\ probe.out[2].token_prices = probe.out[1].token_prices

\* C23: with an empty monitored-token set a block event yields no Execute*
\* action, whatever the node answers and whatever reserves are cached.
C23_EmptyMonitoredSetEmitsNothing ==
    (ms.event = "NewBlock" /\ ms.config.monitored_tokens = <<>>)
        => \A i \in 1..Len(ms.returned) : ~IsExecute(ms.returned[i])

\* A block processed with an empty monitored set on reserves that yield an
\* opportunity as soon as the graph's tokens are searched.
C23_Witness ==
    /\ ms.event = "NewBlock" /\ ms.config.monitored_tokens = <<>>
    /\ ms.config.enable_arbitrage
    /\ opportunities_of_graph_tokens(ms.state, ms.config, ms.hash_order, <<>>) # <<>>
    /\ ms.returned = <<>>

\* The arbitrage paths of the actions the last event returned, in order.
FlashReturnedPaths ==
    LET idx == { i \in 1..Len(fl.returned) : fl.returned[i].kind = "ExecuteArbitrage" }
    IN  [k \in 1..Cardinality(idx) |->
            fl.returned[CHOOSE i \in idx :
                            Cardinality({ j \in idx : j <= i }) = k].path]

\* C28: the executeArbitrage calldata of a path carries one swap entry per
\* leg, in leg order, from which the pool and the direction of every leg are
\* read back.
C28_CalldataCarriesLegs ==
    \A k \in 1..Len(FlashReturnedPaths) :
        /\ k <= Len(fl.tx_data)
        /\ LET swaps == calldata_swaps(fl.tx_data[k])
               path == FlashReturnedPaths[k]
           IN  /\ Len(swaps) = Len(path.swaps)
               /\ \A n \in 1..Len(swaps) :
                      /\ swaps[n].pool = path.swaps[n].pool_address
                      /\ swaps[n].zero_for_one = path.swaps[n].zero_for_one

\* C29: an MEV hint envelope whose hints contain `swaps`, handled with the
\* backrun strategy enabled and the hinted transaction known to the node,
\* yields exactly one action: a JIT action that carries the hinted transaction
\* hash and is marked for private-relay submission.
C29_SwapHintYieldsOneJitAction ==
    (/\ fl.called /\ fl.event.json /\ fl.event.txHash /\ fl.event.hints = "swaps"
     /\ fl.event.tx_known /\ fl.config.mev_share.backrun_enabled
     /\ Contains(fl.config.enabled_strategies, "MEVShareBackrun"))
        => /\ Len(fl.returned) = 1
           /\ fl.returned[1].kind = "ExecuteJitLiquidity"
           /\ "target_tx" \in DOMAIN fl.returned[1]
           /\ "use_flashbots" \in DOMAIN fl.returned[1]
           /\ fl.returned[1].use_flashbots

\* The output the multi-strategy crate quotes for a swap's own amount_in on
\* the reserves cached for its pool.
MsQuotedOut(swap) ==
    LET pool_reserve == ms.state.pool_reserves[swap.pool].val
    IN  calculate_swap_output(pool_reserve,
                              IF swap.zero_for_one THEN pool_reserve.token0
                              ELSE pool_reserve.token1,
                              swap.amount_in, swap.zero_for_one)[1]

\* C30: every swap of every emitted ArbitragePath has amount_in > 0 and an
\* expected output not above the output quoted for that amount_in.
C30_LegsCarryPositiveAmounts ==
    \A i \in 1..Len(ms.returned) :
        \A k \in 1..Len(ms.returned[i].path.swaps) :
            /\ ms.returned[i].path.swaps[k].amount_in > 0
            /\ ms.returned[i].path.swaps[k].expected_out
                   <= MsQuotedOut(ms.returned[i].path.swaps[k])

C31_ConstructedIsBlank ==
    (probe.fn = "MultiStrategy::new" /\ probe.done) =>
        /\ DOMAIN probe.out.metrics = {"total_profit", "successful_txs", "failed_txs",
                                       "arbitrage_opportunities", "jit_opportunities",
                                       "backrunning_opportunities", "avg_gas_price"}
        /\ \A f \in DOMAIN probe.out.metrics : probe.out.metrics[f] = 0
        /\ \A t \in DOMAIN probe.out.state.token_prices :
               probe.out.state.token_prices[t] = None
        /\ \A a \in DOMAIN probe.out.state.pool_reserves :
               probe.out.state.pool_reserves[a] = None
        /\ probe.out.state.tracked_txs = {}

C31_Witness ==
    /\ probe.fn = "MultiStrategy::new" /\ probe.done
    /\ probe.out.config.enable_arbitrage
    /\ Len(probe.out.config.monitored_pools) > 0

\* The profit estimates of all candidate cycles of all monitored start tokens,
\* in the state the last process_event ran in.
FlashCandidateEstimates ==
    { estimate_arbitrage_profit(fl.state, fl.config, paths.val[i])
        : <<paths, i>> \in
            { <<ps, k>> \in { flash_find_profitable_paths(fl.state, fl.config,
                                  fl.hash_order, fl.config.tokens[t])
                              : t \in 1..Len(fl.config.tokens) } \X (1..4)
                : ps.some /\ k <= Len(ps.val) } }

FlashGoodEstimates ==
    { e.val : e \in { x \in FlashCandidateEstimates :
                         x.some /\ x.val > fl.config.arbitrage.min_profit_threshold } }

FlashScanRan ==
    /\ fl.called
    /\ ~process_mev_share_event(fl.config, fl.event).some
    /\ Contains(fl.config.enabled_strategies, "Arbitrage")

\* C32: the arbitrage scan emits the highest estimable net profit among all
\* candidate cycles of all start tokens; a candidate without an estimate is
\* dropped on its own and does not suppress the others.
C32_ScanEmitsBestEstimable ==
    (FlashScanRan /\ FlashGoodEstimates # {}) =>
        \E i \in 1..Len(fl.returned) :
            /\ fl.returned[i].kind = "ExecuteArbitrage"
            /\ \A p \in FlashGoodEstimates : fl.returned[i].expected_profit >= p
            /\ fl.returned[i].expected_profit \in FlashGoodEstimates

\* The reference net profit of a liquidation target at the prices and bonus
\* of the chain and the gas price the strategy held when it handled the event:
\* gross - gasCost - flashLoanFee, gross = seized * collateralPrice / 10^18
\* - debtToCover * debtPrice / 10^18, seized = debtToCover * debtPrice * bonus
\* / (collateralPrice * 10000).  (The division by 10000 is taken before the
\* multiplication by the bonus; the debts of this model are multiples of 10000.)
ReferenceNetProfit(target, gas_price) ==
    LET cprice == chain.price[target.collateral_asset]
        dprice == chain.price[target.debt_asset]
        bonus == (chain.reserve_config \div BONUS_SHIFT) % BONUS_SHIFT
        seized == (((target.debt_to_cover * dprice) \div cprice) \div BPS) * bonus
        gross == (seized * cprice) \div WAD - (target.debt_to_cover * dprice) \div WAD
    IN  gross - gas_price * estimated_gas_units * config.gas_price_multiplier
              - calculate_flash_loan_fee(config, target.debt_to_cover)

\* C33: the net profit labelling an ExecuteLiquidation is the reference value
\* gross - gasCost - flashLoanFee computed with the debtToCover of the emitted
\* target, gas cost and fee subtracted once each.
C33_ProfitIsReferenceNet ==
    \A i \in 1..Len(lastProc.actions) :
        lastProc.actions[i].kind = "ExecuteLiquidation" =>
            lastProc.actions[i].expected_profit =
                ReferenceNetProfit(lastProc.actions[i].path.target, lastProc.gas_price)

\* The cycles handed to create_arbitrage_path in the last process_event.
FlashSearchedCycles ==
    UNION { { fl.searched[t][2][c] : c \in 1..Len(fl.searched[t][2]) }
            : t \in 1..Len(fl.searched) }

BorrowCandidates == { k * (fl.config.arbitrage.max_flash_loan_amount \div 100) : k \in 1..10 }

BestSimulated(cycle) ==
    CHOOSE b \in { simulate_arbitrage(fl.state, fl.config, cycle, a) : a \in BorrowCandidates } :
        \A a \in BorrowCandidates : simulate_arbitrage(fl.state, fl.config, cycle, a) <= b

\* C34: the optimal-borrow search returns, among the candidates k * (max/100),
\* k = 1..10, the smallest one of greatest simulated net profit; no amount
\* when no candidate has a positive simulated profit; never more than max.
C34_BorrowSearch ==
    \A cycle \in FlashSearchedCycles :
        \E best \in {BestSimulated(cycle)},
           r \in {calculate_optimal_borrow_amount(fl.state, fl.config, cycle)} :
            /\ best <= 0 => r = None
            /\ best > 0 =>
                   /\ r.some
                   /\ r.val \in BorrowCandidates
                   /\ simulate_arbitrage(fl.state, fl.config, cycle, r.val) = best
                   /\ \A a \in BorrowCandidates :
                          simulate_arbitrage(fl.state, fl.config, cycle, a) = best
                              => r.val <= a
                   /\ r.val <= fl.config.arbitrage.max_flash_loan_amount

C34_Witness ==
    /\ fl.called
    /\ \E cycle \in FlashSearchedCycles :
           /\ calculate_optimal_borrow_amount(fl.state, fl.config, cycle).some
           /\ calculate_optimal_borrow_amount(fl.state, fl.config, cycle).val
                  > fl.config.arbitrage.max_flash_loan_amount \div 100
    /\ \E cycle \in FlashSearchedCycles :
           calculate_optimal_borrow_amount(fl.state, fl.config, cycle) = None
    /\ \E cycle \in FlashSearchedCycles, a1, a2 \in BorrowCandidates :
           /\ a1 < a2
           /\ BestSimulated(cycle) > 0
           /\ simulate_arbitrage(fl.state, fl.config, cycle, a1) = BestSimulated(cycle)
           /\ simulate_arbitrage(fl.state, fl.config, cycle, a2) = BestSimulated(cycle)

\* The candidate paths of all monitored start tokens in the state the last
\* process_event ran in.
FlashCandidatePaths ==
    { paths.val[i]
        : <<paths, i>> \in
            { <<ps, k>> \in { flash_find_profitable_paths(fl.state, fl.config,
                                  fl.hash_order, fl.config.tokens[t])
                              : t \in 1..Len(fl.config.tokens) } \X (1..4)
                : ps.some /\ k <= Len(ps.val) } }

\* C35: of candidate paths with equal net profit the scan selects the one
\* with fewer legs, then the one with the lower borrow amount, whatever the
\* iteration order of the pools.
C35_TieBreak ==
    FlashScanRan =>
        /\ \A i \in 1..Len(fl.returned) :
               fl.returned[i].kind = "ExecuteArbitrage" =>
                   \A q \in FlashCandidatePaths :
                       estimate_arbitrage_profit(fl.state, fl.config, q)
                           = Some(fl.returned[i].expected_profit)
                       => \/ Len(fl.returned[i].path.swaps) < Len(q.swaps)
                          \/ /\ Len(fl.returned[i].path.swaps) = Len(q.swaps)
                             /\ fl.returned[i].path.borrow_amount <= q.borrow_amount
        /\ \A order \in { o \in [1..Len(fl.hash_order) -> DOMAIN fl.node] :
                              \A a \in DOMAIN fl.node : \E k \in DOMAIN o : o[k] = a } :
               flash_find_arbitrage_opportunities(fl.state, fl.config, order)
                   = flash_find_arbitrage_opportunities(fl.state, fl.config, fl.hash_order)

\* C36: the expiry step removes exactly the tracked transactions whose age
\* exceeds submission_timeout and adds their number to failed_txs; the other
\* tracked transactions, the price and reserve caches and the other counters
\* stay as they were.
C36_ExpiryFrame ==
    (probe.fn = "update_expired_transactions" /\ probe.done) =>
        \E before \in {ProbeMsTracking(probe.args)} :
          \E kept \in {{ tx \in probe.args.tracked_txs :
                            (IF probe.args.now >= tx.sent_at
                             THEN probe.args.now - tx.sent_at ELSE 0)
                                <= probe.args.submission_timeout }} :
            /\ probe.out.state.tracked_txs = kept
            /\ probe.out.metrics.failed_txs
                   = probe.args.failed_txs
                     + Cardinality(probe.args.tracked_txs) - Cardinality(kept)
            /\ probe.out.state.token_prices = before.state.token_prices
            /\ probe.out.state.pool_reserves = before.state.pool_reserves
            /\ \A f \in DOMAIN before.metrics \ {"failed_txs"} :
                   probe.out.metrics[f] = before.metrics[f]
            /\ probe.out.config = before.config

C36_Witness ==
    /\ probe.fn = "update_expired_transactions" /\ probe.done
    /\ Cardinality(probe.args.tracked_txs) = 2
    /\ Cardinality(probe.out.state.tracked_txs) = 1
    /\ \E tx \in probe.out.state.tracked_txs :
           probe.args.now - tx.sent_at = probe.args.submission_timeout
    /\ probe.out.metrics.failed_txs = probe.args.failed_txs + 1
    /\ probe.out.state.pool_reserves["pA"].some

-----------------------------------------------------------------------------
(* Properties: mempool monitor, metrics, main loop gate, event decoding *)

MonHashes == {"t1", "t2", "t3", "t4"}

\* C37: the mempool monitor sends at most one opportunity per transaction
\* hash: no hash occurs twice as competitor_tx among the opportunities it
\* sent, also when the same latest block is polled again and when the set
\* of seen hashes was cleared on passing its size limit.
C37_OncePerHash == \A h \in MonHashes : TimesSent(mon.sent, h) <= 1

\* C38: whenever the lock on recent_opportunities is free, the list holds
\* at most the capacity and is exactly the most recently recorded
\* opportunities in the order they were recorded, under any interleaving
\* of concurrent record_opportunity calls.
C38_RecentIsLatest ==
    met.holder = "none" =>
        /\ Len(met.recent) <= RecentCapacity
        /\ met.recent = LastN(met.recorded, RecentCapacity)

\* More calls than the capacity were recorded, two of them overlapped, and
\* the lock is free again.
C38_Witness ==
    /\ met.holder = "none"
    /\ Len(met.recorded) > RecentCapacity
    /\ \E i \in 1..(Len(met.recorded) - 1) : met.recorded[i] > met.recorded[i + 1]

\* The enable flag that matches an opportunity type.
JitFlagSet(args, opportunity_type) ==
    \/ opportunity_type = "JitLiquidity" /\ args.enable_jit
    \/ opportunity_type = "FlashArbitrage" /\ args.enable_arb

\* The balance was read and is at least 0.1 MATIC.
JitBalanceOk(balance) == balance.some /\ balance.val >= JitMinBalance

\* C39: in the JIT main loop a transaction is submitted for an opportunity
\* only if the wallet balance was read and is at least 0.1 MATIC, the type
\* is not BatchMicroJit and the enable flag of its type is set; when the
\* balance read fails, the balance is lower, the type is BatchMicroJit or
\* the flag is off, the opportunity is consumed without a submission and
\* the loop is back at recv for the next one.
C39_SubmitGate ==
    [][/\ jit'.submitted > jit.submitted =>
           /\ JitBalanceOk(jit.balance)
           /\ jit.opportunity # "BatchMicroJit"
           /\ JitFlagSet(jit.args, jit.opportunity)
       /\ (/\ jit.pc = "balance"
           /\ jit'.pc # "balance"
           /\ ~(/\ JitBalanceOk(jit'.balance)
                /\ jit.opportunity # "BatchMicroJit"
                /\ JitFlagSet(jit.args, jit.opportunity))) =>
           /\ jit'.submitted = jit.submitted
           /\ jit'.pc = "recv"
           /\ jit'.handled = jit.handled + 1
           /\ jit'.opportunity = "none"]_vars

\* A transaction was submitted with a balance of exactly 0.1 MATIC, after an
\* earlier opportunity had been consumed without a submission.
C39_Witness ==
    /\ jit.pc = "receipt"
    /\ jit.balance = Some(JitMinBalance)
    /\ jit.submitted = 1
    /\ jit.handled >= 1

\* C40: process_event given empty bytes or bytes that are not valid JSON
\* runs the block scans and returns what a block event returns in the same
\* state; valid JSON without a string `type` takes no branch and returns no
\* action; the bytes the collector yields when serializing its error
\* envelope failed are empty and so run the block scans.
C40_UndecodableIsBlock ==
    [][lastProc' # lastProc =>
           LET ev == lastProc'.event
           IN  /\ ev.form \in {"empty", "malformed"} =>
                      /\ lastProc'.route = "block_scan"
                      /\ \E rpc_ok \in BOOLEAN :
                             lastProc'.actions = process_block_event(chain, rpc_ok, state, config)
               /\ (ev.form = "json" /\ ev.type = "none") =>
                      /\ lastProc'.route = "none"
                      /\ lastProc'.actions = <<>>
               /\ ev = error_envelope_bytes(FALSE) => lastProc'.route = "block_scan"]_vars

\* process_event was given bytes that are not valid JSON and ran the block
\* scans with the circuit breaker off.
C40_Witness ==
    /\ lastProc.called
    /\ lastProc.event.form = "malformed"
    /\ lastProc.route = "block_scan"
    /\ ~lastProc.circuit_breaker_triggered

====
